---- MODULE Spec2Model ----
(***************************************************************************)
(* A model of the flatbin format of talk-serde-dyn-schema: the varint and  *)
(* node-header codecs, the Builder with its tuple and vector sub-builders, *)
(* the Flatbin reader, and the slow (tree) and fast (streaming) codecs     *)
(* between JSON and flatbin.                                               *)
(*                                                                         *)
(* A u64 / i64 / usize / f64 is a sequence of 64 bits, least significant   *)
(* first (bit i of the machine word is element i+1), so that the shifts,   *)
(* complements and truncations of the source keep their 64-bit width.      *)
(* A byte is a number in 0..255 and a byte slice is a sequence of bytes.   *)
(***************************************************************************)
EXTENDS Integers, Sequences, FiniteSets, TLC

VARIABLES
    nIn,        \* numeric codecs: the input word (64 bits)
    nByte,      \* numeric codecs: the sole body byte used when the length is 1
    nOp,        \* numeric codecs: which operation has been applied ("none" before)
    nOut,       \* numeric codecs: the operation's result
    buffer,     \* builder: FlatbinBuf.data
    frames,     \* builder: the stack of open TupleBuilder / VectorBuilder values
    root,       \* builder: state of the Builder::new cursor: "fresh", "open", "done"
    kids,       \* builder (history): per open sequence, the bodies written as its children
    rootKind,   \* builder (history): what the root cursor wrote: "none", "scalar", "tuple", "vector"
    rootKids,   \* builder (history): the children of the root sequence once it has ended
    ended,      \* builder (history): the last sub-builder ended: <<>> or <<[kind, tail, kids, ret]>>
    nwrites,    \* builder (history): number of values written through sub-builders so far
    seqs,       \* counted builder: FlatbinBuilder.seqs, the stack of open Seq values
    fatal,      \* counted builder: None, or Some(message) once a call has panicked
    call,       \* counted builder (history): the last call made on the FlatbinBuilder
    ty,         \* codec: the schema
    text,       \* codec: the JSON input, as the token tree the lexer delivers
    text2,      \* codec: the same JSON input with its object keys permuted
    flat,       \* codec: the flatbin bytes handed to serialize directly
    slowBuf,    \* codec: result of slow::deserialize
    fastBuf,    \* codec: result of fast::deserialize
    fastBuf2,   \* codec: result of fast::deserialize on text2
    slowOut,    \* codec: result of slow::serialize
    fastOut,    \* codec: result of fast::serialize
    overflow_checks  \* build profile: TRUE when arithmetic overflow panics (debug), FALSE when it wraps

vars == <<nIn, nByte, nOp, nOut, buffer, frames, root, kids, rootKind, rootKids, ended, nwrites,
          seqs, fatal, call,
          ty, text, text2, flat, slowBuf, fastBuf, fastBuf2, slowOut, fastOut, overflow_checks>>

numVars     == <<nIn, nByte, nOp, nOut>>
countedVars == <<seqs, fatal, call>>
builderVars == <<buffer, frames, root, kids, rootKind, rootKids, ended, nwrites, countedVars>>
codecVars   == <<ty, text, text2, flat, slowBuf, fastBuf, fastBuf2, slowOut, fastOut, overflow_checks>>

----------------------------------------------------------------------------
(* Bounds of the model. *)

\* the small words 0..MaxSmall are among the sampled 64-bit inputs
MaxSmall == 70

\* builder runs: sub-builders nested at most MaxDepth deep
MaxDepth == 2

\* builder runs: at most MaxWrites values written through sub-builders
MaxWrites == 3

\* garbage runs: byte strings of at most MaxGarbageLen bytes
MaxGarbageLen == 3

----------------------------------------------------------------------------
(* Option<T>: None is the empty sequence, Some(x) the one-element sequence. *)

None == <<>>

Some(x) == <<x>>

IsSome(o) == Len(o) = 1

----------------------------------------------------------------------------
(* Evaluation helpers: F applied to the values of its arguments, each        *)
(* evaluated once (an operand used under a quantifier or inside a function   *)
(* constructor would otherwise be evaluated again at every use).             *)

Strict1(F(_), x) == CHOOSE r \in {F(a) : a \in {x}} : TRUE

Strict2(F(_, _), x, y) == CHOOSE r \in {F(a, b) : a \in {x}, b \in {y}} : TRUE

----------------------------------------------------------------------------
(* 64-bit words. *)

Zero64 == [i \in 1..64 |-> 0]

\* 2^k for k in 0..30 (the range of the model checker's integers)
Pow2(k) == 2 ^ k

\* the word whose value is the small natural n (n < 2^31)
U64OfNat(n) ==
    Strict1(LAMBDA a : [i \in 1..64 |-> IF i <= 31 THEN (a \div Pow2(i - 1)) % 2 ELSE 0], n)

\* whether the word's value is below 2^31, so that it is a number of the model
FitsNat(x) == Strict1(LAMBDA a : \A i \in 32..64 : a[i] = 0, x)


\* x << k and x >> k (logical), for 0 <= k < 64: bits shifted out are lost
Shl(x, k) ==
    Strict2(LAMBDA a, n : [i \in 1..64 |-> IF i - n >= 1 THEN a[i - n] ELSE 0], x, k)

Shr(x, k) ==
    Strict2(LAMBDA a, n : [i \in 1..64 |-> IF i + n <= 64 THEN a[i + n] ELSE 0], x, k)

\* i >> 63 on an i64 (arithmetic): every bit is the sign bit
Sar63(x) == Strict1(LAMBDA a : [i \in 1..64 |-> a[64]], x)

Not64(x) == Strict1(LAMBDA a : [i \in 1..64 |-> 1 - a[i]], x)

Or64(x, y) ==
    Strict2(LAMBDA a, b : [i \in 1..64 |-> IF a[i] = 1 \/ b[i] = 1 THEN 1 ELSE 0], x, y)

Xor64(x, y) == Strict2(LAMBDA a, b : [i \in 1..64 |-> (a[i] + b[i]) % 2], x, y)

\* the carry into bit i (1-based) of a + b: some lower bit generates a carry
\* and every bit between propagates it
CarryIn(a, b, i) ==
    \E j \in 1..(i - 1) :
        /\ a[j] + b[j] = 2
        /\ \A k \in (j + 1)..(i - 1) : a[k] + b[k] >= 1

AddBits(a, b) ==
    [i \in 1..64 |-> (a[i] + b[i] + (IF CarryIn(a, b, i) THEN 1 ELSE 0)) % 2]

\* x + y modulo 2^64 (the operands are evaluated once, then added)
Add64(x, y) == Strict2(AddBits, x, y)

\* whether x + y overflows 64 bits
AddOverflows(x, y) == Strict2(LAMBDA a, b : CarryIn(a, b, 65), x, y)

\* u64::leading_zeros / usize::leading_zeros
leading_zeros(x) ==
    Strict1(LAMBDA a :
                IF a = Zero64 THEN 64
                ELSE 64 - (CHOOSE i \in 1..64 : a[i] = 1 /\ \A j \in (i + 1)..64 : a[j] = 0),
            x)

\* the byte made of bits lo+1..lo+8 of the word (lo counted from 0)
ByteAt(x, lo) ==
    x[lo + 1] + 2 * x[lo + 2] + 4 * x[lo + 3] + 8 * x[lo + 4]
    + 16 * x[lo + 5] + 32 * x[lo + 6] + 64 * x[lo + 7] + 128 * x[lo + 8]

\* `value as u8`
LowByte(x) == ByteAt(x, 0)

\* the value of a word that FitsNat
NatOfU64(x) ==
    Strict1(LAMBDA a : ByteAt(a, 0) + 256 * ByteAt(a, 8) + 65536 * ByteAt(a, 16)
                       + 16777216 * ByteAt(a, 24),
            x)

\* u64::to_le_bytes
to_le_bytes(x) == Strict1(LAMBDA a : [j \in 1..8 |-> ByteAt(a, 8 * (j - 1))], x)

\* u64::from_le_bytes on an 8-byte array
from_le_bytes(bytes) ==
    Strict1(LAMBDA a : [i \in 1..64 |-> (a[((i - 1) \div 8) + 1] \div Pow2((i - 1) % 8)) % 2],
            bytes)

\* `byte as u64`
U64OfByte(b) == U64OfNat(b)

\* u8::leading_ones
leading_ones(b) ==
    IF b < 128 THEN 0
    ELSE IF b < 192 THEN 1
    ELSE IF b < 224 THEN 2
    ELSE IF b < 240 THEN 3
    ELSE IF b < 248 THEN 4
    ELSE IF b < 252 THEN 5
    ELSE IF b < 254 THEN 6
    ELSE IF b < 255 THEN 7
    ELSE 8

\* slices: s[from..] and s[..to] with 0-based Rust bounds
Skip(s, from) == SubSeq(s, from + 1, Len(s))

Take(s, to) == SubSeq(s, 1, to)

\* Vec::splice(at..at, ins): insert `ins` before 0-based offset `at`
Splice(s, at, ins) == Take(s, at) \o ins \o Skip(s, at)

\* an array of n bytes: `data` followed by zeros
PadTo(data, n) ==
    Strict1(LAMBDA a : [j \in 1..n |-> IF j <= Len(a) THEN a[j] ELSE 0], data)

\* u8 bit operations
ByteBit(b, k) == (b \div Pow2(k)) % 2

ByteOr(a, b) ==
    LET bit(k) == IF ByteBit(a, k) = 1 \/ ByteBit(b, k) = 1 THEN Pow2(k) ELSE 0
    IN  bit(0) + bit(1) + bit(2) + bit(3) + bit(4) + bit(5) + bit(6) + bit(7)

ByteAnd(a, b) ==
    LET bit(k) == IF ByteBit(a, k) = 1 /\ ByteBit(b, k) = 1 THEN Pow2(k) ELSE 0
    IN  bit(0) + bit(1) + bit(2) + bit(3) + bit(4) + bit(5) + bit(6) + bit(7)

\* `b << k` and `b >> k` on a u8, 0 <= k < 8
ByteShl(b, k) == (b * Pow2(k)) % 256

ByteShr(b, k) == b \div Pow2(k)

ByteNot(b) == 255 - b

----------------------------------------------------------------------------
(* Result<T, E> and panics.  R("ok", v) is Ok(v), R("err", e) is Err(e) with  *)
(* e the error's name, and R("panic", m) is a panic (the call never returns). *)

R(tag, val) == [tag |-> tag, val |-> val]

IsOk(r) == r.tag = "ok"

IsErr(r) == r.tag = "err"

IsPanic(r) == r.tag = "panic"

\* the `?` operator followed by F: an Err or a panic is passed on, F is applied
\* to the value of an Ok
AndThen(F(_), r) == Strict1(LAMBDA a : IF IsOk(a) THEN F(a.val) ELSE a, r)

\* Result::map: the Ok value of r mapped by F, an Err or a panic passed on
MapOk(F(_), r) == Strict1(LAMBDA a : IF IsOk(a) THEN R("ok", F(a.val)) ELSE a, r)

----------------------------------------------------------------------------
(* varint.rs: unsigned LEB128.  A VarInt is [len, data] with data the 10    *)
(* bytes of the struct, padded with zeros.                                  *)

\* the loop of VarInt::from_u64 from iteration i on: the bytes it stores
RECURSIVE from_u64_loop(_, _)
from_u64_loop(value, i) ==
    IF i >= 10 THEN <<>>
    ELSE LET byte == LowByte(value)
             rest == Shr(value, 7)
         IN  IF rest # Zero64
             THEN <<ByteOr(byte, 128)>> \o from_u64_loop(rest, i + 1)
             ELSE <<byte>>

\* the same encoding with the continuation flag left off every byte
VarInt_from_u64_no_flag(value) ==
    LET bytes == from_u64_loop(value, 0)
    IN  [len  |-> Len(bytes),
         data |-> PadTo([j \in 1..Len(bytes) |-> ByteAnd(bytes[j], 127)], 10)]

VarInt_from_u64(value) ==
    LET bytes == from_u64_loop(value, 0)
    IN  [len |-> Len(bytes), data |-> PadTo(bytes, 10)]

VarInt_from_usize(value) == VarInt_from_u64(value)

\* flatbin::util::VarInt::from_usize, the varint the builder writes a vector's
\* count with: unsigned LEB128, at most 10 bytes, with the layout of VarInt
util_VarInt_from_usize(value) == VarInt_from_u64(value)

VarInt_as_bytes(v) == Take(v.data, v.len)

VarInt_num_bytes(v) == v.len

\* the sum over index < len of ((byte & 0x7f) as u64) << (7 * index)
RECURSIVE as_u64_sum(_, _)
as_u64_sum(v, index) ==
    IF index >= v.len THEN Zero64
    ELSE Add64(Shl(U64OfByte(ByteAnd(v.data[index + 1], 127)), 7 * index),
               as_u64_sum(v, index + 1))

VarInt_as_u64(v) == as_u64_sum(v, 0)

\* VarInt::from_slice
\* the index (from 1) of the first byte among the first 10 without the
\* continuation bit, or 0 when there is none
FirstFinal(buf) ==
    Strict1(LAMBDA a :
                LET n == IF Len(a) < 10 THEN Len(a) ELSE 10
                IN  IF \A i \in 1..n : ByteAnd(a[i], 128) # 0 THEN 0
                    ELSE CHOOSE i \in 1..n : /\ ByteAnd(a[i], 128) = 0
                                             /\ \A j \in 1..(i - 1) : ByteAnd(a[j], 128) # 0,
            buf)

VarInt_from_slice(buf) ==
    Strict1(LAMBDA len :
                IF len = 0
                THEN R("err", IF Len(buf) > 10 THEN "TooLarge" ELSE "UnexpectedEOF")
                ELSE R("ok", [len |-> len, data |-> PadTo(Take(buf, len), 10)]),
            FirstFinal(buf))

\* varint.rs read_varint: the value and the advanced slice
read_varint(buf) ==
    MapOk(LAMBDA value : [value |-> VarInt_as_u64(value),
                          rest  |-> Skip(buf, VarInt_num_bytes(value))],
          VarInt_from_slice(buf))

----------------------------------------------------------------------------
(* flatbin/builder.rs make_header and flatbin/mod.rs read_node_header.      *)

\* make_header with the count of header bytes taken one too high
make_header_len_wide(len, first) ==
    IF len = Zero64 THEN <<128>>
    ELSE IF len = U64OfNat(1) THEN (IF first < 128 THEN <<>> ELSE <<129>>)
    ELSE LET count == (78 - leading_zeros(len)) \div 7
         IN  IF count > 6
             THEN <<255>> \o to_le_bytes(len)
             ELSE LET bytes == to_le_bytes(Shl(len, count + 1))
                      b0    == ByteOr(ByteShr(bytes[1], count + 1),
                                      ByteNot(ByteShr(255, count)))
                  IN  Take(<<b0>> \o Skip(bytes, 1), count)

\* make_header as a function of the body's length (a usize) and, for a body
\* of one byte, that byte: the header bytes
make_header_len(len, first) ==
    IF len = Zero64 THEN <<128>>
    ELSE IF len = U64OfNat(1) THEN (IF first < 128 THEN <<>> ELSE <<129>>)
    ELSE LET count == (71 - leading_zeros(len)) \div 7
         IN  IF count > 6
             THEN <<255>> \o to_le_bytes(len)
             ELSE LET bytes == to_le_bytes(Shl(len, count + 1))
                      b0    == ByteOr(ByteShr(bytes[1], count + 1),
                                      ByteNot(ByteShr(255, count)))
                  IN  Take(<<b0>> \o Skip(bytes, 1), count)

make_header(body) ==
    make_header_len(U64OfNat(Len(body)), IF Len(body) >= 1 THEN body[1] ELSE 0)

\* read_node_header's inner::<N>
inner(N, buf) ==
    IF Len(buf) < N THEN R("err", "UnexpectedEOF")
    ELSE LET bytes == PadTo(Take(buf, N), 8)
             b     == <<ByteShl(bytes[1], N + 1)>> \o Skip(bytes, 1)
         IN  R("ok", [header_len |-> N, body_len |-> Shr(from_le_bytes(b), N + 1)])

\* read_node_header's inner2::<N>
inner2(N, buf) ==
    IF Len(buf) < N + 1 THEN R("err", "UnexpectedEOF")
    ELSE LET bytes == PadTo(SubSeq(buf, 2, N + 1), 8)
         IN  R("ok", [header_len |-> N + 1, body_len |-> from_le_bytes(bytes)])

\* Flatbin::read_node_header: Ok((header_len, body_len)), body_len a usize
read_node_header(buf) ==
    IF Len(buf) = 0 THEN R("err", "UnexpectedEOF")
    ELSE LET first_byte == buf[1]
             ones       == leading_ones(first_byte)
         IN  IF ones = 0 THEN R("ok", [header_len |-> 0, body_len |-> U64OfNat(1)])
             ELSE IF ones = 1
                  THEN R("ok", [header_len |-> 1,
                                body_len   |-> U64OfNat(ByteAnd(first_byte, 63))])
             ELSE IF ones <= 6 THEN inner(ones, buf)
             ELSE inner2(ones, buf)

----------------------------------------------------------------------------
(* flatbin/builder.rs.  The buffer under construction is b = [buffer,       *)
(* frames]: the bytes, and the stack of the TupleBuilder / VectorBuilder    *)
(* values alive on it, outermost first.  A Builder cursor is [last_child,   *)
(* count]: each None, or Some(i) for a reference into frame i.              *)

EmptyBuf == [buffer |-> <<>>, frames |-> <<>>]

\* Builder::new
Builder_new == [last_child |-> None, count |-> None]

TupleBuilder_new == [kind |-> "tuple", last_child |-> None]

\* the same sub-builder with its start at the beginning of the buffer
VectorBuilder_new_at_zero(buf) ==
    [kind |-> "vector", start |-> 0, count |-> 0, last_child |-> None]

\* VectorBuilder::new
VectorBuilder_new(buf) ==
    [kind |-> "vector", start |-> Len(buf), count |-> 0, last_child |-> None]

\* TupleBuilder::as_builder / VectorBuilder::as_builder on the innermost frame
as_builder(b) ==
    LET i == Len(b.frames)
    IN  IF b.frames[i].kind = "tuple"
        THEN [last_child |-> Some(i), count |-> None]
        ELSE [last_child |-> Some(i), count |-> Some(i)]

\* the same step with the previous child left without its header
begin_write_no_header(b, cur) ==
    LET b1 == IF IsSome(cur.last_child)
              THEN [b EXCEPT !.frames[cur.last_child[1]].last_child = Some(Len(b.buffer))]
              ELSE b
    IN  IF IsSome(cur.count)
        THEN [b1 EXCEPT !.frames[cur.count[1]].count = @ + 1]
        ELSE b1

\* Builder::begin_write
begin_write(b, cur) ==
    Strict1(LAMBDA b1 : IF IsSome(cur.count)
                        THEN [b1 EXCEPT !.frames[cur.count[1]].count = @ + 1]
                        ELSE b1,
            IF IsSome(cur.last_child)
            THEN LET i  == cur.last_child[1]
                     lc == b.frames[i].last_child
                 IN  Strict1(LAMBDA buf1 :
                                 [buffer |-> buf1,
                                  frames |-> [b.frames EXCEPT
                                                 ![i].last_child = Some(Len(buf1))]],
                             IF IsSome(lc)
                             THEN Splice(b.buffer, lc[1],
                                         make_header(Skip(b.buffer, lc[1])))
                             ELSE b.buffer)
            ELSE b)

extend(b, bytes) == [b EXCEPT !.buffer = @ \o bytes]

write_void(b, cur) == begin_write(b, cur)

write_u8(b, cur, value) ==
    IF value <= 127
    THEN extend(begin_write(b, cur), <<value>>)
    ELSE extend(begin_write(b, cur), <<129, value>>)

write_bool(b, cur, value) ==
    IF value THEN write_u8(b, cur, 1) ELSE write_u8(b, cur, 0)

\* the same write with the byte count rounded down
write_u64_floor(b, cur, value) ==
    LET count == (64 - leading_zeros(value)) \div 8
    IN  extend(begin_write(b, cur), Take(to_le_bytes(value), count))

write_u64(b, cur, value) ==
    LET count == (71 - leading_zeros(value)) \div 8
    IN  extend(begin_write(b, cur), Take(to_le_bytes(value), count))

\* the same mapping without the complement for negative values
write_i64_no_complement(b, cur, value) == write_u64(b, cur, Shl(value, 1))

write_i64(b, cur, value) ==
    write_u64(b, cur, IF value[64] = 1 THEN Not64(Shl(value, 1)) ELSE Shl(value, 1))

write_bytes(b, cur, bytes) == extend(begin_write(b, cur), bytes)

\* f64::to_le_bytes is the little-endian form of the value's 64 bits
write_f64(b, cur, value) == write_bytes(b, cur, to_le_bytes(value))

write_str(b, cur, str) == write_bytes(b, cur, str)

copy(b, cur, other) == write_bytes(b, cur, other)

\* write_u16 / write_u32: value.into() a u64
write_u16(b, cur, value) == write_u64(b, cur, value)

write_u32(b, cur, value) == write_u64(b, cur, value)

\* f32::to_le_bytes is the little-endian form of the value's 32 bits (the low
\* half of the word)
write_f32(b, cur, value) == write_bytes(b, cur, Take(to_le_bytes(value), 4))

\* Writable::write for the scalar type named: builder.$method(self as _).  The
\* value is the 64-bit word of `self as i64` / `self as u64` (a signed value
\* sign-extended), or the bits of the float
Writable_write(type, b, cur, value) ==
    CASE type = "u8"    -> write_u8(b, cur, ByteAt(value, 0))
      [] type = "u16"   -> write_u64(b, cur, value)
      [] type = "u32"   -> write_u64(b, cur, value)
      [] type = "u64"   -> write_u64(b, cur, value)
      [] type = "usize" -> write_u64(b, cur, value)
      [] type = "i8"    -> write_i64(b, cur, value)
      [] type = "i16"   -> write_i64(b, cur, value)
      [] type = "i32"   -> write_i64(b, cur, value)
      [] type = "i64"   -> write_i64(b, cur, value)
      [] type = "isize" -> write_u64(b, cur, value)
      [] type = "f32"   -> write_f32(b, cur, value)
      [] type = "f64"   -> write_f64(b, cur, value)

start_tuple(b, cur) ==
    Strict1(LAMBDA b1 : [b1 EXCEPT !.frames = Append(@, TupleBuilder_new)],
            begin_write(b, cur))

start_vector(b, cur) ==
    Strict1(LAMBDA b1 : [b1 EXCEPT !.frames = Append(@, VectorBuilder_new(b1.buffer))],
            begin_write(b, cur))

\* TupleBuilder::end on the innermost frame
TupleBuilder_end(b) == [b EXCEPT !.frames = Take(@, Len(@) - 1)]

\* the same drop writing the count after the children
VectorBuilder_drop_suffix(b) ==
    LET f == b.frames[Len(b.frames)]
    IN  [buffer |-> IF f.count > 0
                    THEN b.buffer \o VarInt_as_bytes(util_VarInt_from_usize(U64OfNat(f.count)))
                    ELSE b.buffer,
         frames |-> Take(b.frames, Len(b.frames) - 1)]

\* the same drop writing the count of an empty vector too
VectorBuilder_drop_always(b) ==
    LET f == b.frames[Len(b.frames)]
    IN  [buffer |-> Splice(b.buffer, f.start,
                           VarInt_as_bytes(util_VarInt_from_usize(U64OfNat(f.count)))),
         frames |-> Take(b.frames, Len(b.frames) - 1)]

\* VectorBuilder::end on the innermost frame, with the Drop that follows it
VectorBuilder_drop(b) ==
    LET f == b.frames[Len(b.frames)]
    IN  [buffer |-> IF f.count > 0
                    THEN Splice(b.buffer, f.start,
                                VarInt_as_bytes(util_VarInt_from_usize(U64OfNat(f.count))))
                    ELSE b.buffer,
         frames |-> Take(b.frames, Len(b.frames) - 1)]

----------------------------------------------------------------------------
(* flatbin/mod.rs: the reader.  A Flatbin is its byte slice.                *)

read_void(data) ==
    IF Len(data) = 0 THEN R("ok", <<>>) ELSE R("err", "UnexpectedLength")

read_uint(data) ==
    IF Len(data) > 8 THEN R("err", "UnexpectedLength")
    ELSE R("ok", from_le_bytes(PadTo(data, 8)))

read_u64(data) == read_uint(data)

read_bool(data) ==
    AndThen(LAMBDA v : IF v = Zero64 THEN R("ok", FALSE)
                       ELSE IF v = U64OfNat(1) THEN R("ok", TRUE)
                       ELSE R("err", "NumberTooLarge"),
            read_uint(data))

\* u8 / u16 / u32 ::try_from(u64): Err when the value is above the type's MAX
try_into_unsigned(width, value) ==
    IF \E i \in (width + 1)..64 : value[i] = 1 THEN None ELSE Some(value)

\* i8 / i16 / i32 ::try_from(i64): Err when the value is above the type's MAX
\* or below its MIN
try_into_signed(width, value) ==
    IF value[64] = 0
    THEN IF \E i \in width..63 : value[i] = 1 THEN None ELSE Some(value)
    ELSE IF \E i \in width..63 : value[i] = 0 THEN None ELSE Some(value)

\* .map_err(|_| Error::NumberTooLarge)
ok_or_NumberTooLarge(opt) ==
    IF IsSome(opt) THEN R("ok", opt[1]) ELSE R("err", "NumberTooLarge")

\* a read_u8 that casts with `as u8`
read_u8_truncating(data) ==
    MapOk(LAMBDA v : [i \in 1..64 |-> IF i <= 8 THEN v[i] ELSE 0], read_uint(data))

read_u8(data) ==
    AndThen(LAMBDA v : ok_or_NumberTooLarge(try_into_unsigned(8, v)), read_uint(data))

read_u16(data) ==
    AndThen(LAMBDA v : ok_or_NumberTooLarge(try_into_unsigned(16, v)), read_uint(data))

read_u32(data) ==
    AndThen(LAMBDA v : ok_or_NumberTooLarge(try_into_unsigned(32, v)), read_uint(data))

read_int(data) ==
    MapOk(LAMBDA v : IF v[1] = 0 THEN Shr(v, 1) ELSE Not64(Shr(v, 1)), read_uint(data))

read_i64(data) == read_int(data)

read_i8(data) ==
    AndThen(LAMBDA v : ok_or_NumberTooLarge(try_into_signed(8, v)), read_int(data))

read_i16(data) ==
    AndThen(LAMBDA v : ok_or_NumberTooLarge(try_into_signed(16, v)), read_int(data))

read_i32(data) ==
    AndThen(LAMBDA v : ok_or_NumberTooLarge(try_into_signed(32, v)), read_int(data))

\* f32::from_le_bytes gives the value whose 32 bits are the four bytes
read_f32(data) ==
    IF Len(data) = 4 THEN R("ok", from_le_bytes(PadTo(data, 8)))
    ELSE R("err", "UnexpectedLength")

read_f64(data) ==
    IF Len(data) = 8 THEN R("ok", from_le_bytes(data)) ELSE R("err", "UnexpectedLength")

read_bytes(data) == R("ok", data)

(* std::str::from_utf8 (used by Flatbin::read_string).                      *)

IsCont(s, i) == i <= Len(s) /\ s[i] \in 128..191

\* the bytes of s from index i on are well-formed UTF-8
RECURSIVE Utf8From(_, _)
Utf8From(s, i) ==
    IF i > Len(s) THEN TRUE
    ELSE LET c == s[i]
         IN  IF c <= 127 THEN Utf8From(s, i + 1)
             ELSE IF c \in 194..223 THEN IsCont(s, i + 1) /\ Utf8From(s, i + 2)
             ELSE IF c \in 224..239
                  THEN /\ IsCont(s, i + 1) /\ IsCont(s, i + 2)
                       /\ c = 224 => s[i + 1] >= 160
                       /\ c = 237 => s[i + 1] <= 159
                       /\ Utf8From(s, i + 3)
             ELSE IF c \in 240..244
                  THEN /\ IsCont(s, i + 1) /\ IsCont(s, i + 2) /\ IsCont(s, i + 3)
                       /\ c = 240 => s[i + 1] >= 144
                       /\ c = 244 => s[i + 1] <= 143
                       /\ Utf8From(s, i + 4)
             ELSE FALSE

from_utf8(s) == IF Utf8From(s, 1) THEN R("ok", s) ELSE R("err", "Utf8Error")

\* Flatbin::read_string
read_string(data) ==
    IF IsOk(from_utf8(data)) THEN R("ok", data) ELSE R("err", "InvalidUTF8")

\* Flatbin::read_str, which fast/ser.rs calls and flatbin/mod.rs does not
\* define: the str reader of the specification, the body verbatim after UTF-8
\* validation, failing with InvalidUTF8
read_str(data) ==
    IF IsOk(from_utf8(data)) THEN R("ok", data) ELSE R("err", "InvalidUTF8")

\* the loop of Flatbin::read_varint from `index` on, `value` accumulated so far.
\* `<< (7 * index)` overflows from index 10 on: a panic where overflow is
\* checked, else the shift amount wraps modulo 64
RECURSIVE Flatbin_read_varint_loop(_, _, _)
Flatbin_read_varint_loop(data, value, index) ==
    IF index >= Len(data) THEN R("err", "UnexpectedEOF")
    ELSE IF 7 * index >= 64 /\ overflow_checks THEN R("panic", "attempt to shift left with overflow")
    ELSE LET byte == data[index + 1]
             v    == Or64(value, Shl(U64OfByte(ByteAnd(byte, 127)), (7 * index) % 64))
         IN  IF ByteAnd(byte, 128) = 0
             THEN R("ok", [value |-> v, rest |-> Skip(data, index + 1)])
             ELSE Flatbin_read_varint_loop(data, v, index + 1)

\* Flatbin::read_varint (flatbin/mod.rs)
Flatbin_read_varint(data) == Flatbin_read_varint_loop(data, Zero64, 0)

\* Flatbin::read_tuple: a Sequence [count, data]
read_tuple(data, count) == R("ok", [count |-> count, data |-> data])

\* Flatbin::read_array (the count, a usize, is a number of the model)
read_array(data) ==
    IF Len(data) = 0 THEN R("ok", [count |-> 0, data |-> data])
    ELSE MapOk(LAMBDA c : [count |-> NatOfU64(c.value), data |-> c.rest],
               Flatbin_read_varint(data))

\* SequenceIter::next on an iterator [count, data] with count >= 1:
\* Ok([item, iter]) or the panic of split_at
SequenceIter_next(it) ==
    IF it.count = 1
    THEN R("ok", [item |-> it.data, iter |-> [count |-> 0, data |-> it.data]])
    ELSE Strict1(LAMBDA h :
                     Strict2(LAMBDA body_len, tail :
                                 IF ~FitsNat(body_len) \/ NatOfU64(body_len) > Len(tail)
                                 THEN R("panic", "split_at: mid > len")
                                 ELSE R("ok", [item |-> Take(tail, NatOfU64(body_len)),
                                               iter |-> [count |-> it.count - 1,
                                                         data  |-> Skip(tail,
                                                                        NatOfU64(body_len))]]),
                             h.body_len, Skip(it.data, h.header_len)),
                 Strict1(LAMBDA r : IF IsOk(r) THEN r.val
                                    ELSE [header_len |-> 0, body_len |-> Zero64],
                         read_node_header(it.data)))

\* the next k items of the iterator (k <= count): the items taken, the
\* iterator after them and, where a call of next panicked, that panic (the
\* items are those taken before it)
RECURSIVE SequenceIter_take(_, _)
SequenceIter_take(it, k) ==
    IF k = 0 THEN [items |-> <<>>, iter |-> it, stop |-> None]
    ELSE IF k = 1
    THEN Strict1(LAMBDA n :
                     IF IsOk(n)
                     THEN [items |-> <<n.val.item>>, iter |-> n.val.iter, stop |-> None]
                     ELSE [items |-> <<>>, iter |-> it, stop |-> Some(n)],
                 SequenceIter_next(it))
    ELSE Strict1(LAMBDA first :
                     IF IsSome(first.stop) THEN first
                     ELSE Strict1(LAMBDA rest : [items |-> first.items \o rest.items,
                                                 iter  |-> rest.iter,
                                                 stop  |-> rest.stop],
                                  SequenceIter_take(first.iter, k - (k \div 2))),
                 SequenceIter_take(it, k \div 2))

\* every item of the iterator, in order: Ok(items) or the first panic
SequenceIter_collect(it) ==
    Strict1(LAMBDA all : IF IsSome(all.stop) THEN all.stop[1] ELSE R("ok", all.items),
            SequenceIter_take(it, it.count))

----------------------------------------------------------------------------
(* The numeric codecs as a state machine: a 64-bit input is drawn, then one *)
(* of the codecs is applied to it and its result recorded.                  *)

\* the word 2^k and the word 2^k - 1
Word2(k) == [i \in 1..64 |-> IF i = k + 1 THEN 1 ELSE 0]

LowOnes(k) == [i \in 1..64 |-> IF i <= k THEN 1 ELSE 0]

\* the sampled inputs: the small words, and around every power of two
Samples64 ==
    {U64OfNat(n) : n \in 0..MaxSmall}
    \cup {Word2(k) : k \in 0..63}
    \cup {LowOnes(k) : k \in 1..64}
    \cup {Or64(Word2(k), Word2(0)) : k \in 1..63}
    \cup {Not64(Word2(k)) : k \in 0..62}

\* the body bytes tried for a body of length 1
SampleBytes == {0, 127, 128, 255}

Idle == "idle"

countedIdle == seqs = Idle /\ fatal = Idle /\ call = Idle

builderIdle ==
    /\ buffer = <<>> /\ frames = <<>> /\ root = Idle /\ kids = <<>>
    /\ rootKind = Idle /\ rootKids = <<>> /\ ended = <<>> /\ nwrites = 0
    /\ countedIdle

codecIdle ==
    /\ ty = Idle /\ text = Idle /\ text2 = Idle /\ flat = Idle
    /\ slowBuf = Idle /\ fastBuf = Idle /\ fastBuf2 = Idle
    /\ slowOut = Idle /\ fastOut = Idle
    /\ overflow_checks = TRUE

numIdle == nIn = Idle /\ nByte = Idle /\ nOp = Idle /\ nOut = Idle

NumInit ==
    /\ nIn \in Samples64
    /\ nByte \in SampleBytes
    /\ nOp = "none"
    /\ nOut = <<>>
    /\ builderIdle
    /\ codecIdle

\* VarInt::from_u64(n), then as_u64 and VarInt::from_slice on its bytes
NumVarint ==
    /\ nOp = "none"
    /\ nOp' = "varint"
    /\ LET enc == VarInt_from_u64(nIn)
       IN  nOut' = [enc |-> enc,
                    as_u64 |-> VarInt_as_u64(enc),
                    dec |-> VarInt_from_slice(VarInt_as_bytes(enc))]
    /\ UNCHANGED <<nIn, nByte, builderVars, codecVars>>

\* make_header on a body of nIn bytes (the first being nByte), then
\* read_node_header on the header followed by the body
NumHeader ==
    /\ nOp = "none"
    /\ nOp' = "header"
    /\ LET header == make_header_len(nIn, nByte)
           body1  == IF nIn = Zero64 THEN <<>> ELSE <<nByte>>
       IN  nOut' = [header |-> header, read |-> read_node_header(header \o body1)]
    /\ UNCHANGED <<nIn, nByte, builderVars, codecVars>>

\* Builder::write_i64(nIn as i64) into an empty buffer, then read_uint and
\* read_i64 on the body
NumZigzag ==
    /\ nOp = "none"
    /\ nOp' = "zigzag"
    /\ LET body == write_i64(EmptyBuf, Builder_new, nIn).buffer
       IN  nOut' = [body |-> body, uint |-> read_uint(body), int |-> read_i64(body)]
    /\ UNCHANGED <<nIn, nByte, builderVars, codecVars>>

\* the width in bits of a scalar type
WidthOf(type) ==
    CASE type \in {"u8", "i8"}   -> 8
      [] type \in {"u16", "i16"} -> 16
      [] type \in {"u32", "i32", "f32"} -> 32
      [] OTHER -> 64

\* the word is a value of the type: zero above the width for an unsigned or
\* float type, the sign bit repeated above the width for a signed one
InType(type, x) ==
    IF type \in {"i8", "i16", "i32", "i64", "isize"}
    THEN \A i \in WidthOf(type)..64 : x[i] = x[WidthOf(type)]
    ELSE \A i \in (WidthOf(type) + 1)..64 : x[i] = 0

\* the write paths of a scalar: the unsigned write methods called directly,
\* and Builder::write on each Writable scalar type
WritePaths ==
    [method : {"write_u8", "write_u16", "write_u32", "write_u64"}, type : {"none"}]
    \cup [method : {"write"},
          type : {"u8", "u16", "u32", "u64", "usize", "i8", "i16", "i32", "i64", "isize",
                  "f32", "f64"}]

\* the type of the value a write path takes
TypeOf(path) ==
    CASE path.method = "write_u8"  -> "u8"
      [] path.method = "write_u16" -> "u16"
      [] path.method = "write_u32" -> "u32"
      [] path.method = "write_u64" -> "u64"
      [] path.method = "write"     -> path.type

\* the call of the write path on the cursor cur of b
WriteVia(path, b, cur, value) ==
    CASE path.method = "write_u8"  -> write_u8(b, cur, ByteAt(value, 0))
      [] path.method = "write_u16" -> write_u16(b, cur, value)
      [] path.method = "write_u32" -> write_u32(b, cur, value)
      [] path.method = "write_u64" -> write_u64(b, cur, value)
      [] path.method = "write"     -> Writable_write(path.type, b, cur, value)

\* Builder::new(&mut buffer).write_u8(v) / .. / .write(v) for a value of the
\* path's type into an empty buffer, then read_uint and read_i64 on the body
NumWrite(path) ==
    /\ nOp = "none"
    /\ InType(TypeOf(path), nIn)
    /\ nOp' = "write"
    /\ \E body \in {WriteVia(path, EmptyBuf, Builder_new, nIn).buffer} :
           nOut' = [path |-> path, body |-> body,
                    uint |-> read_uint(body), int |-> read_i64(body)]
    /\ UNCHANGED <<nIn, nByte, builderVars, codecVars>>

\* the integer readers of a Flatbin
Readers ==
    {"read_uint", "read_u8", "read_u16", "read_u32", "read_int", "read_i8", "read_i16",
     "read_i32", "read_bool"}

\* the call of the reader on a body
ReadVia(reader, data) ==
    CASE reader = "read_uint" -> read_uint(data)
      [] reader = "read_u8"   -> read_u8(data)
      [] reader = "read_u16"  -> read_u16(data)
      [] reader = "read_u32"  -> read_u32(data)
      [] reader = "read_int"  -> read_int(data)
      [] reader = "read_i8"   -> read_i8(data)
      [] reader = "read_i16"  -> read_i16(data)
      [] reader = "read_i32"  -> read_i32(data)
      [] reader = "read_bool" -> read_bool(data)

\* the bodies read for a word: its little-endian bytes without the zero bytes
\* at the end (0 to 8 bytes), all eight of them, and the eight with one more
\* byte after them
ReadBodies(v, extra) ==
    { Take(to_le_bytes(v),
           CHOOSE n \in 0..8 : /\ \A j \in (n + 1)..8 : ByteAt(v, 8 * (j - 1)) = 0
                               /\ n > 0 => ByteAt(v, 8 * (n - 1)) # 0),
      to_le_bytes(v),
      to_le_bytes(v) \o <<extra>> }

\* Flatbin::from_bytes(body).read_uint() / .read_u8() / .. / .read_bool()
NumRead(reader) ==
    /\ nOp = "none"
    /\ nOp' = "read"
    /\ \E body \in ReadBodies(nIn, nByte) :
           nOut' = [reader |-> reader, body |-> body, res |-> ReadVia(reader, body)]
    /\ UNCHANGED <<nIn, nByte, builderVars, codecVars>>

\* the scalar kinds that have a write method of the Builder and a matching
\* read method of the Flatbin
ScalarKinds ==
    {"bool", "u8", "u16", "u32", "u64", "i64", "f32", "f64", "bytes", "str", "void"}

\* the value of the kind drawn from a word: the word itself for a number (the
\* bits of a float), whether it is 1 for a bool, its little-endian bytes up
\* to the last one that is not zero for bytes and str, () for void
ScalarOf(kind, x) ==
    CASE kind = "bool"             -> x = U64OfNat(1)
      [] kind \in {"bytes", "str"} -> Take(to_le_bytes(x), (71 - leading_zeros(x)) \div 8)
      [] kind = "void"             -> <<>>
      [] OTHER                     -> x

\* the word gives a value of the kind: a bool from 0 or 1, a number within its
\* width, a str from well-formed UTF-8, () from 0 alone
IsScalarOf(kind, x) ==
    CASE kind = "bool" -> x \in {Zero64, U64OfNat(1)}
      [] kind \in {"u8", "u16", "u32", "f32"} -> InType(kind, x)
      [] kind = "str"  -> IsOk(from_utf8(ScalarOf("str", x)))
      [] kind = "void" -> x = Zero64
      [] OTHER         -> TRUE

\* Builder::new(&mut buffer).write_bool(v) / .write_u8(v) / .. / .write_void()
\* into an empty buffer: the bytes written
WriteScalar(kind, v) ==
    CASE kind = "bool"  -> write_bool(EmptyBuf, Builder_new, v).buffer
      [] kind = "u8"    -> write_u8(EmptyBuf, Builder_new, ByteAt(v, 0)).buffer
      [] kind = "u16"   -> write_u16(EmptyBuf, Builder_new, v).buffer
      [] kind = "u32"   -> write_u32(EmptyBuf, Builder_new, v).buffer
      [] kind = "u64"   -> write_u64(EmptyBuf, Builder_new, v).buffer
      [] kind = "i64"   -> write_i64(EmptyBuf, Builder_new, v).buffer
      [] kind = "f32"   -> write_f32(EmptyBuf, Builder_new, v).buffer
      [] kind = "f64"   -> write_f64(EmptyBuf, Builder_new, v).buffer
      [] kind = "bytes" -> write_bytes(EmptyBuf, Builder_new, v).buffer
      [] kind = "str"   -> write_str(EmptyBuf, Builder_new, v).buffer
      [] kind = "void"  -> write_void(EmptyBuf, Builder_new).buffer

\* Flatbin::from_bytes(body).read_bool() / .read_u8() / .. / .read_void()
ReadScalar(kind, body) ==
    CASE kind = "bool"  -> read_bool(body)
      [] kind = "u8"    -> read_u8(body)
      [] kind = "u16"   -> read_u16(body)
      [] kind = "u32"   -> read_u32(body)
      [] kind = "u64"   -> read_u64(body)
      [] kind = "i64"   -> read_i64(body)
      [] kind = "f32"   -> read_f32(body)
      [] kind = "f64"   -> read_f64(body)
      [] kind = "bytes" -> read_bytes(body)
      [] kind = "str"   -> read_string(body)
      [] kind = "void"  -> read_void(body)

\* a value of the kind written at the top level of an empty buffer, then read
\* from the bytes written with the read method of the same kind
NumRoundTrip(kind) ==
    /\ nOp = "none"
    /\ IsScalarOf(kind, nIn)
    /\ nOp' = "roundtrip"
    /\ \E body \in {WriteScalar(kind, ScalarOf(kind, nIn))} :
           nOut' = [kind |-> kind, value |-> ScalarOf(kind, nIn), body |-> body,
                    back |-> ReadScalar(kind, body)]
    /\ UNCHANGED <<nIn, nByte, builderVars, codecVars>>

NumNext ==
    \/ NumVarint
    \/ NumHeader
    \/ NumZigzag
    \/ \E path \in WritePaths : NumWrite(path)
    \/ \E reader \in Readers : NumRead(reader)
    \/ \E kind \in ScalarKinds : NumRoundTrip(kind)

SpecNum == NumInit /\ [][NumNext]_vars

----------------------------------------------------------------------------
(* Claims about the numeric codecs (checked under SpecNum).                 *)

\* C7: for every n, VarInt::from_u64(n) has 1 to 10 bytes, the high bit set on
\* all but the last; as_u64 of it is n; VarInt::from_slice on its bytes decodes
\* to n with num_bytes the encoded length.
C7_VarintRoundTrip ==
    nOp = "varint" =>
        LET enc   == nOut.enc
            bytes == VarInt_as_bytes(enc)
        IN  /\ enc.len \in 1..10
            /\ \A i \in 1..(enc.len - 1) : bytes[i] >= 128
            /\ bytes[enc.len] < 128
            /\ nOut.as_u64 = nIn
            /\ IsOk(nOut.dec)
            /\ VarInt_as_u64(nOut.dec.val) = nIn
            /\ VarInt_num_bytes(nOut.dec.val) = enc.len

\* a 10-byte varint (n >= 2^63) has been encoded and decoded
C7_Witness == nOp = "varint" /\ nOut.enc.len = 10 /\ nIn[64] = 1

\* number of bits needed to write the length
BitsOf(len) == 64 - leading_zeros(len)

\* the shortest form of the node-header table that can represent a body of
\* length len whose first byte is first: its number of header bytes
ShortestHeaderLen(len, first) ==
    IF len = U64OfNat(1) /\ first < 128 THEN 0
    ELSE IF BitsOf(len) <= 6 THEN 1
    ELSE IF \E N \in 2..6 : BitsOf(len) <= 8 * N - (N + 1)
         THEN CHOOSE N \in 2..6 : /\ BitsOf(len) <= 8 * N - (N + 1)
                                  /\ \A M \in 2..(N - 1) : BitsOf(len) > 8 * M - (M + 1)
    ELSE IF BitsOf(len) <= 56 THEN 8
    ELSE 9

\* read_node_header(make_header(body) ++ body) = (header length, L)
HeaderRoundTrip ==
    /\ IsOk(nOut.read)
    /\ nOut.read.val.header_len = Len(nOut.header)
    /\ nOut.read.val.body_len = nIn

\* C8 as stated: the header round-trips for every L and is the shortest form
\* of the table that can represent L.
C8_HeaderMinimalAsStated ==
    nOp = "header" =>
        /\ HeaderRoundTrip
        /\ Len(nOut.header) = ShortestHeaderLen(nIn, nByte)

\* What the code does (the part of C8 that holds): the header round-trips for
\* every L; it is the shortest form of the table for L < 2^41, and for
\* L >= 2^41 it is always the 9-byte form (0xFF and eight bytes), also where
\* the 8-byte form (seven leading ones) would do.
C8_HeaderRoundTrip ==
    nOp = "header" =>
        /\ HeaderRoundTrip
        /\ BitsOf(nIn) <= 41 => Len(nOut.header) = ShortestHeaderLen(nIn, nByte)
        /\ BitsOf(nIn) > 41 => Len(nOut.header) = 9 /\ nOut.header[1] = 255

\* a header of 2 to 6 bytes, and a 9-byte one for a length the 8-byte form holds
C8_Witness ==
    /\ nOp = "header"
    /\ BitsOf(nIn) \in 42..56
    /\ Len(nOut.header) = 9

\* C9: read_i64 on the body written by write_i64(i) returns i, and the unsigned
\* value written is (i << 1) ^ (i >> 63) modulo 2^64.
C9_ZigZagRoundTrip ==
    nOp = "zigzag" =>
        /\ IsOk(nOut.int)
        /\ nOut.int.val = nIn
        /\ IsOk(nOut.uint)
        /\ nOut.uint.val = Xor64(Shl(nIn, 1), Sar63(nIn))

\* i = -2^63 has been written and read back
C9_Witness == nOp = "zigzag" /\ nIn = Word2(63) /\ Len(nOut.body) = 8

----------------------------------------------------------------------------
(* The Builder as a state machine: one Builder::new cursor on an empty      *)
(* FlatbinBuf, consumed by one scalar write or by start_tuple /             *)
(* start_vector; the innermost open sub-builder takes scalar writes and     *)
(* nested start_tuple / start_vector through as_builder(), and is ended.    *)
(* The history variables record what was written, not how it is framed.     *)

\* a 64-byte body (the shortest that takes a 2-byte node header)
Body64 == [j \in 1..64 |-> 7]

\* the scalar writes a run may make: [op, arg]
ScalarWrites ==
    { [op |-> "void",  arg |-> 0],
      [op |-> "u64",   arg |-> 56],
      [op |-> "u64",   arg |-> 200],
      [op |-> "str",   arg |-> <<72, 101, 108, 108, 111>>],
      [op |-> "bytes", arg |-> Body64] }

\* the Builder method for the write w, on cursor cur of b
ScalarWrite(b, cur, w) ==
    CASE w.op = "void"  -> write_void(b, cur)
      [] w.op = "bool"  -> write_bool(b, cur, w.arg)
      [] w.op = "u8"    -> write_u8(b, cur, w.arg)
      [] w.op = "u64"   -> write_u64(b, cur, U64OfNat(w.arg))
      [] w.op = "str"   -> write_str(b, cur, w.arg)
      [] w.op = "bytes" -> write_bytes(b, cur, w.arg)

\* the body of the scalar: what the write appends as a document of its own
BodyOf(w) == ScalarWrite(EmptyBuf, Builder_new, w).buffer

\* the buffer with its live sub-builders
B == [buffer |-> buffer, frames |-> frames]

\* the children in sequence framing: every child but the last after its node
\* header, the last one bare
RECURSIVE Framed(_)
Framed(bodies) ==
    IF Len(bodies) = 0 THEN <<>>
    ELSE IF Len(bodies) = 1 THEN bodies[1]
    ELSE make_header(bodies[1]) \o bodies[1] \o Framed(Tail(bodies))

BuilderInit ==
    /\ buffer = <<>>
    /\ frames = <<>>
    /\ root = "fresh"
    /\ kids = <<>>
    /\ rootKind = "none"
    /\ rootKids = <<>>
    /\ ended = <<>>
    /\ nwrites = 0
    /\ countedIdle
    /\ numIdle
    /\ codecIdle

\* Builder::new(&mut buffer).write(...): the root cursor writes a scalar
RootWrite(w) ==
    /\ root = "fresh"
    /\ buffer' = ScalarWrite(B, Builder_new, w).buffer
    /\ root' = "done"
    /\ rootKind' = "scalar"
    /\ UNCHANGED <<frames, kids, rootKids, ended, nwrites, countedVars, numVars, codecVars>>

\* Builder::new(&mut buffer).start_tuple() / start_vector()
RootStart(kind) ==
    /\ root = "fresh"
    /\ \E b1 \in {IF kind = "tuple" THEN start_tuple(B, Builder_new)
                                     ELSE start_vector(B, Builder_new)} :
           /\ buffer' = b1.buffer
           /\ frames' = b1.frames
    /\ root' = "open"
    /\ rootKind' = kind
    /\ kids' = <<[start |-> Len(buffer), bodies |-> <<>>]>>
    /\ UNCHANGED <<rootKids, ended, nwrites, countedVars, numVars, codecVars>>

\* seq.as_builder().write(...) on the innermost open sub-builder
ChildWrite(w) ==
    /\ frames # <<>>
    /\ nwrites < MaxWrites
    /\ \E b1 \in {ScalarWrite(B, as_builder(B), w)} :
           /\ buffer' = b1.buffer
           /\ frames' = b1.frames
    /\ kids' = [kids EXCEPT ![Len(kids)].bodies = Append(@, BodyOf(w))]
    /\ nwrites' = nwrites + 1
    /\ UNCHANGED <<root, rootKind, rootKids, ended, countedVars, numVars, codecVars>>

\* seq.start_tuple() / seq.start_vector() on the innermost open sub-builder
ChildStart(kind) ==
    /\ frames # <<>>
    /\ Len(frames) < MaxDepth
    /\ nwrites < MaxWrites
    /\ \E b1 \in {IF kind = "tuple" THEN start_tuple(B, as_builder(B))
                                     ELSE start_vector(B, as_builder(B))} :
           /\ buffer' = b1.buffer
           /\ frames' = b1.frames
           /\ kids' = Append(kids, [start |-> Len(b1.buffer), bodies |-> <<>>])
    /\ nwrites' = nwrites + 1
    /\ UNCHANGED <<root, rootKind, rootKids, ended, countedVars, numVars, codecVars>>

\* TupleBuilder::end / VectorBuilder::end (and its Drop) on the innermost
\* open sub-builder
End ==
    /\ frames # <<>>
    /\ \E b1 \in {IF frames[Len(frames)].kind = "tuple" THEN TupleBuilder_end(B)
                                                           ELSE VectorBuilder_drop(B)} :
       LET f    == frames[Len(frames)]
           k    == kids[Len(kids)]
           rest == Take(kids, Len(kids) - 1)
       IN  /\ buffer' = b1.buffer
           /\ frames' = b1.frames
           /\ ended' = <<[kind |-> f.kind,
                          tail |-> Skip(b1.buffer, k.start),
                          kids |-> k.bodies,
                          ret  |-> IF f.kind = "vector" THEN f.count ELSE 0]>>
           /\ IF rest = <<>>
              THEN /\ kids' = <<>>
                   /\ rootKids' = k.bodies
                   /\ root' = "done"
              ELSE /\ kids' = [rest EXCEPT ![Len(rest)].bodies =
                                                Append(@, Skip(b1.buffer, k.start))]
                   /\ UNCHANGED <<rootKids, root>>
    /\ UNCHANGED <<rootKind, nwrites, countedVars, numVars, codecVars>>

BuilderNext ==
    \/ \E w \in ScalarWrites : RootWrite(w)
    \/ \E kind \in {"tuple", "vector"} : RootStart(kind)
    \/ \E w \in ScalarWrites : ChildWrite(w)
    \/ \E kind \in {"tuple", "vector"} : ChildStart(kind)
    \/ End

SpecBuilder == BuilderInit /\ [][BuilderNext]_vars

----------------------------------------------------------------------------
(* Claims about the builder (checked under SpecBuilder).                    *)

\* what the buffer holds from open sequence i's start on: its finished
\* children and then the sequence open inside it, as its last child so far
RECURSIVE ExpectedOpen(_)
ExpectedOpen(i) ==
    IF i = Len(kids) THEN Framed(kids[i].bodies)
    ELSE Framed(Append(kids[i].bodies, ExpectedOpen(i + 1)))

\* C5: after any sequence of child writes through a tuple or vector
\* sub-builder, the sequence body is its N children in write order, each of the
\* first N-1 preceded by the node header of its own body and the last one
\* without a header, up to the end (N = 1: the single child is bare).  This
\* holds of every open sequence (the sequence open inside it being its last
\* child so far) and of the sequence just ended, whose children are a tuple's
\* whole body and the end of a vector's body, after its count.
C5_HeaderlessLast ==
    /\ frames # <<>> =>
           /\ Len(kids) = Len(frames)
           /\ Skip(buffer, kids[1].start) = ExpectedOpen(1)
    /\ ended # <<>> =>
           LET body == Framed(ended[1].kids)
               tail == ended[1].tail
           IN  /\ Len(tail) >= Len(body)
               /\ Skip(tail, Len(tail) - Len(body)) = body
               /\ ended[1].kind = "tuple" => tail = body

\* a tuple of three children was ended whose first child takes a 2-byte header
\* and whose last child is bare at the end of the buffer
C5_Witness ==
    /\ ended # <<>>
    /\ ended[1].kind = "tuple"
    /\ Len(ended[1].kids) = 3
    /\ ended[1].kids[1] = Body64
    /\ Len(ended[1].kids[3]) = 5
    /\ Skip(ended[1].tail, Len(ended[1].tail) - 5) = ended[1].kids[3]

\* reading an ended sequence back: the Sequence and the items of its iterator
ReadBack(e) ==
    IF e.kind = "vector" THEN read_array(e.tail) ELSE read_tuple(e.tail, Len(e.kids))

\* C6: for a vector or tuple built through the Builder with children bodies
\* b1..bN, read_array (read_tuple(N)) and iteration yield exactly b1..bN in
\* order, and the sequence reports length N.
C6_BuilderReaderRoundTrip ==
    ended # <<>> =>
        LET seq == ReadBack(ended[1])
        IN  /\ IsOk(seq)
            /\ seq.val.count = Len(ended[1].kids)
            /\ SequenceIter_collect(seq.val) = R("ok", ended[1].kids)

\* a vector of three children, the second a 64-byte body (behind a 2-byte node
\* header), was ended at the root and read back
C6_Witness ==
    /\ ended # <<>>
    /\ ended[1].kind = "vector"
    /\ Len(ended[1].kids) = 3
    /\ ended[1].kids[2] = Body64
    /\ frames = <<>>
    /\ nwrites = MaxWrites
    /\ SequenceIter_collect(ReadBack(ended[1]).val).val[2] = Body64

----------------------------------------------------------------------------
(* ty.rs: a Ty is [t |-> "Bool"], ..., [t |-> "Array", inner |-> Ty] or       *)
(* [t |-> "Struct", fields |-> a sequence of Field]; a Field is [name, ty].   *)

\* the scalar cases: Ty.Bool is Ty::Bool, and so on
Ty ==
    [Bool   |-> [t |-> "Bool"],
     U64    |-> [t |-> "U64"],
     I64    |-> [t |-> "I64"],
     F64    |-> [t |-> "F64"],
     Bytes  |-> [t |-> "Bytes"],
     String |-> [t |-> "String"]]

\* array_def!
array_def(elem) == [t |-> "Array", inner |-> elem]

\* struct_def!
struct_def(fields) == [t |-> "Struct", fields |-> fields]

Field(name, type) == [name |-> name, ty |-> type]

----------------------------------------------------------------------------
(* f64 values are their 64 bits: sign (bit 63), exponent (bits 52..62),     *)
(* fraction (bits 0..51).                                                   *)

\* `value as f64` for a u64: the nearest f64, ties to even
u64_as_f64(x) ==
    IF x = Zero64 THEN Zero64
    ELSE LET p == 63 - leading_zeros(x)
             m == IF p <= 52 THEN Shl(x, 52 - p)
                  ELSE LET s      == p - 52
                           q      == Shr(x, s)
                           guard  == x[s] = 1
                           sticky == \E i \in 1..(s - 1) : x[i] = 1
                       IN  IF guard /\ (sticky \/ q[1] = 1)
                           THEN Add64(q, U64OfNat(1))
                           ELSE q
         \* m holds the leading one at bit 52 (or is 2^53 after a carry): adding
         \* it to the exponent field less one gives exponent and fraction
         IN  Add64(Shl(U64OfNat(1022 + p), 52), m)

\* `value as f64` for an i64
i64_as_f64(x) ==
    IF x[64] = 1
    THEN Or64(u64_as_f64(Add64(Not64(x), U64OfNat(1))), Shl(U64OfNat(1), 63))
    ELSE u64_as_f64(x)

\* the exponent field is all ones: an infinity or a NaN
ExponentAllOnes(f) == \A i \in 53..63 : f[i] = 1

\* f64::is_infinite
is_infinite(f) == ExponentAllOnes(f) /\ \A i \in 1..52 : f[i] = 0

\* f64::is_finite
is_finite(f) == ~ExponentAllOnes(f)

\* f64 == f64 for finite values: the same bits, or zeros of either sign
f64_eq(f, g) == f = g \/ (\A i \in 1..63 : f[i] = 0 /\ g[i] = 0)

----------------------------------------------------------------------------
(* serde_json::Value (JsonValue).  A Number is PosInt(u64), NegInt(i64 < 0) *)
(* or Float(finite f64); an Object is a map: a function from its keys.      *)

PosInt(n) == [n |-> "PosInt", v |-> n]

NegInt(n) == [n |-> "NegInt", v |-> n]

Float(f) == [n |-> "Float", v |-> f]

VNull == [k |-> "null"]

VBool(b) == [k |-> "bool", b |-> b]

VNumber(n) == [k |-> "number", n |-> n]

VString(s) == [k |-> "string", s |-> s]

VArray(items) == [k |-> "array", items |-> items]

VObject(map) == [k |-> "object", map |-> map]

\* Value::as_bool
as_bool(v) == IF v.k = "bool" THEN Some(v.b) ELSE None

\* Value::as_u64
as_u64(v) == IF v.k = "number" /\ v.n.n = "PosInt" THEN Some(v.n.v) ELSE None

\* Value::as_i64: a PosInt above i64::MAX is None
as_i64(v) ==
    IF v.k # "number" THEN None
    ELSE IF v.n.n = "PosInt" THEN (IF v.n.v[64] = 0 THEN Some(v.n.v) ELSE None)
    ELSE IF v.n.n = "NegInt" THEN Some(v.n.v)
    ELSE None

\* Value::as_f64
as_f64(v) ==
    IF v.k # "number" THEN None
    ELSE IF v.n.n = "PosInt" THEN Some(u64_as_f64(v.n.v))
    ELSE IF v.n.n = "NegInt" THEN Some(i64_as_f64(v.n.v))
    ELSE Some(v.n.v)

\* Value::as_str
as_str(v) == IF v.k = "string" THEN Some(v.s) ELSE None

\* Value::as_array
as_array(v) == IF v.k = "array" THEN Some(v.items) ELSE None

\* Value::as_object
as_object(v) == IF v.k = "object" THEN Some(v.map) ELSE None

\* Map::get
Map_get(map, key) == IF key \in DOMAIN map THEN Some(map[key]) ELSE None

\* Value::from(u64)
Value_from_u64(n) == VNumber(PosInt(n))

\* Value::from(i64)
Value_from_i64(n) == IF n[64] = 1 THEN VNumber(NegInt(n)) ELSE VNumber(PosInt(n))

\* Value::from(f64): Number::from_f64, Null for a value that is not finite
Value_from_f64(f) == IF is_finite(f) THEN VNumber(Float(f)) ELSE VNull

\* Value::from(&[u8]): the array of the bytes as numbers
Value_from_bytes(bytes) ==
    VArray([j \in 1..Len(bytes) |-> Value_from_u64(U64OfByte(bytes[j]))])

\* Number == Number: equal variants with equal values
Number_eq(a, b) ==
    /\ a.n = b.n
    /\ IF a.n = "Float" THEN f64_eq(a.v, b.v) ELSE a.v = b.v

\* Value == Value
RECURSIVE Value_eq(_, _)
Value_eq(a, b) ==
    /\ a.k = b.k
    /\ CASE a.k = "null"   -> TRUE
         [] a.k = "bool"   -> a.b = b.b
         [] a.k = "number" -> Number_eq(a.n, b.n)
         [] a.k = "string" -> a.s = b.s
         [] a.k = "array"  -> /\ Len(a.items) = Len(b.items)
                              /\ \A j \in 1..Len(a.items) : Value_eq(a.items[j], b.items[j])
         [] a.k = "object" -> /\ DOMAIN a.map = DOMAIN b.map
                              /\ \A key \in DOMAIN a.map : Value_eq(a.map[key], b.map[key])

----------------------------------------------------------------------------
(* JSON text, as the tokens serde_json's reader delivers: a number token is *)
(* an integer literal (sign and magnitude, below 2^64) or a literal with a  *)
(* fraction or exponent (the finite f64 it denotes); a string token is its  *)
(* unescaped UTF-8 bytes; an object is its key/value pairs in text order,   *)
(* where a key may occur more than once.                                    *)

JNull == [j |-> "null"]

JBool(b) == [j |-> "bool", b |-> b]

JInt(neg, mag) == [j |-> "int", neg |-> neg, mag |-> mag]

JFloat(f) == [j |-> "float", f |-> f]

JStr(s) == [j |-> "string", s |-> s]

JArr(items) == [j |-> "array", items |-> items]

JObj(pairs) == [j |-> "object", pairs |-> pairs]

Pair(key, value) == [key |-> key, value |-> value]

\* the field names in use, in the order of their bytes (the order of a Map)
FieldNames ==
    <<"age", "experience", "hobbies", "languages", "liked", "name", "rustacean">>

\* serde_json's ParserNumber for a number token: U64 for a non-negative
\* integer literal, I64 for a negative one, F64 for -0, for a negative
\* literal below i64::MIN and for a literal with fraction or exponent
parse_integer(tok) ==
    IF tok.j = "float" THEN [p |-> "F64", v |-> tok.f]
    ELSE IF ~tok.neg THEN [p |-> "U64", v |-> tok.mag]
    ELSE LET neg == Add64(Not64(tok.mag), U64OfNat(1))
         IN  IF neg[64] = 0
             THEN [p |-> "F64", v |-> Or64(u64_as_f64(tok.mag), Shl(U64OfNat(1), 63))]
             ELSE [p |-> "I64", v |-> neg]

\* the Number that serde_json's Value parser makes of a number token
Number_of_token(tok) ==
    Strict1(LAMBDA pn : IF pn.p = "U64" THEN PosInt(pn.v)
                        ELSE IF pn.p = "I64" THEN NegInt(pn.v)
                        ELSE Float(pn.v),
            parse_integer(tok))

\* the index of the last pair of `pairs` with this key
LastIndexOf(pairs, key) ==
    CHOOSE i \in 1..Len(pairs) :
        /\ pairs[i].key = key
        /\ \A m \in (i + 1)..Len(pairs) : pairs[m].key # key

\* serde_json::from_str::<Value> on a whole document: an object keeps the
\* last value of a repeated key
RECURSIVE Value_of_text(_)
Value_of_text(tok) ==
    CASE tok.j = "null"   -> VNull
      [] tok.j = "bool"   -> VBool(tok.b)
      [] tok.j = "int"    -> VNumber(Number_of_token(tok))
      [] tok.j = "float"  -> VNumber(Number_of_token(tok))
      [] tok.j = "string" -> VString(tok.s)
      [] tok.j = "array"  -> VArray([i \in 1..Len(tok.items) |-> Value_of_text(tok.items[i])])
      [] tok.j = "object" ->
            VObject([key \in {tok.pairs[i].key : i \in 1..Len(tok.pairs)} |->
                        Value_of_text(tok.pairs[LastIndexOf(tok.pairs, key)].value)])

from_str(txt) == R("ok", Value_of_text(txt))

\* the keys of a Map in iteration order
Map_keys(map) == SelectSeq(FieldNames, LAMBDA key : key \in DOMAIN map)

\* Value::to_string: the text serde_json prints for a value.  An integer
\* prints as an integer literal, a float with a fraction or exponent, an
\* object with its keys in the Map's order
RECURSIVE to_string(_)
to_string(v) ==
    CASE v.k = "null"   -> JNull
      [] v.k = "bool"   -> JBool(v.b)
      [] v.k = "number" ->
            IF v.n.n = "PosInt" THEN JInt(FALSE, v.n.v)
            ELSE IF v.n.n = "NegInt" THEN JInt(TRUE, Add64(Not64(v.n.v), U64OfNat(1)))
            ELSE JFloat(v.n.v)
      [] v.k = "string" -> JStr(v.s)
      [] v.k = "array"  -> JArr([i \in 1..Len(v.items) |-> to_string(v.items[i])])
      [] v.k = "object" ->
            JObj([i \in 1..Len(Map_keys(v.map)) |->
                    Pair(Map_keys(v.map)[i], to_string(v.map[Map_keys(v.map)[i]]))])

----------------------------------------------------------------------------
(* slow/de.rs: JsonValue -> flatbin.  Ok(b) is the buffer (with its live    *)
(* sub-builders) after the value has been written.                          *)

\* the same error naming the expected kind where the value's kind belongs
unexpected_type_got_expected(expected, value) ==
    [e |-> "UnexpectedType", expected |-> expected, got |-> expected]

\* unexpected_type
unexpected_type(expected, value) ==
    [e |-> "UnexpectedType",
     expected |-> expected,
     got |-> CASE value.k = "null"   -> "null"
               [] value.k = "bool"   -> "a boolean"
               [] value.k = "number" -> "a number"
               [] value.k = "string" -> "a string"
               [] value.k = "array"  -> "an array"
               [] value.k = "object" -> "an object"]

\* missing_field
missing_field(name) == [e |-> "MissingField", name |-> name]

\* value.as_u64()?.try_into().ok() for a u8
as_byte(value) ==
    LET n == as_u64(value)
    IN  IF IsSome(n) /\ FitsNat(n[1]) /\ NatOfU64(n[1]) <= 255
        THEN Some(NatOfU64(n[1]))
        ELSE None

RECURSIVE Ty_deserialize(_, _, _, _)
RECURSIVE Ty_deserialize_elements(_, _, _, _)
RECURSIVE Ty_deserialize_fields(_, _, _, _)

\* the loop over the elements of an array, from element i on, into the
\* innermost (vector) sub-builder of b
Ty_deserialize_elements(elem, array, i, b) ==
    IF i > Len(array) THEN R("ok", b)
    ELSE AndThen(LAMBDA b1 : Ty_deserialize_elements(elem, array, i + 1, b1),
                 Ty_deserialize(elem, array[i], b, as_builder(b)))

\* the same loop going through the fields from the last to the first
Ty_deserialize_fields_reversed(fields, object, i, b) ==
    IF i > Len(fields) THEN R("ok", b)
    ELSE LET field == fields[Len(fields) + 1 - i]
             value == Map_get(object, field.name)
         IN  IF ~IsSome(value) THEN R("err", missing_field(field.name))
             ELSE AndThen(LAMBDA b1 : Ty_deserialize_fields(fields, object, i + 1, b1),
                          Ty_deserialize(field.ty, value[1], b, as_builder(b)))

\* the loop over the fields of a struct, from field i on, into the innermost
\* (tuple) sub-builder of b
Ty_deserialize_fields(fields, object, i, b) ==
    IF i > Len(fields) THEN R("ok", b)
    ELSE LET value == Map_get(object, fields[i].name)
         IN  IF ~IsSome(value) THEN R("err", missing_field(fields[i].name))
             ELSE AndThen(LAMBDA b1 : Ty_deserialize_fields(fields, object, i + 1, b1),
                          Ty_deserialize(fields[i].ty, value[1], b, as_builder(b)))

\* Ty::deserialize, writing through the cursor cur of b
Ty_deserialize(type, value, b, cur) ==
    CASE type.t = "Bool" ->
            IF IsSome(as_bool(value)) THEN R("ok", write_bool(b, cur, as_bool(value)[1]))
            ELSE R("err", unexpected_type("a boolean", value))
      [] type.t = "U64" ->
            IF IsSome(as_u64(value)) THEN R("ok", write_u64(b, cur, as_u64(value)[1]))
            ELSE R("err", unexpected_type("a non-negative integer", value))
      [] type.t = "I64" ->
            IF IsSome(as_i64(value)) THEN R("ok", write_i64(b, cur, as_i64(value)[1]))
            ELSE R("err", unexpected_type("an integer", value))
      [] type.t = "F64" ->
            IF IsSome(as_f64(value)) THEN R("ok", write_f64(b, cur, as_f64(value)[1]))
            ELSE R("err", unexpected_type("a number", value))
      [] type.t = "Bytes" ->
            IF ~IsSome(as_array(value)) THEN R("err", unexpected_type("a byte array", value))
            ELSE LET array == as_array(value)[1]
                 IN  IF \E i \in 1..Len(array) : ~IsSome(as_byte(array[i]))
                     THEN R("err", [e |-> "NotAByte"])
                     ELSE R("ok", write_bytes(b, cur,
                                    [i \in 1..Len(array) |-> as_byte(array[i])[1]]))
      [] type.t = "String" ->
            IF IsSome(as_str(value)) THEN R("ok", write_str(b, cur, as_str(value)[1]))
            ELSE R("err", unexpected_type("a string", value))
      [] type.t = "Array" ->
            IF ~IsSome(as_array(value)) THEN R("err", unexpected_type("an array", value))
            ELSE MapOk(VectorBuilder_drop,
                       Ty_deserialize_elements(type.inner, as_array(value)[1], 1,
                                               start_vector(b, cur)))
      [] type.t = "Struct" ->
            IF ~IsSome(as_object(value)) THEN R("err", unexpected_type("an object", value))
            ELSE MapOk(TupleBuilder_end,
                       Ty_deserialize_fields(type.fields, as_object(value)[1], 1,
                                             start_tuple(b, cur)))

\* slow::deserialize_into on a FlatbinBuf holding the bytes data: Ok(the bytes
\* of the buffer after the call) or Err
slow_deserialize_into(type, value, data) ==
    MapOk(LAMBDA b : b.buffer,
          Ty_deserialize(type, value, [buffer |-> data, frames |-> <<>>], Builder_new))

\* slow::deserialize: deserialize_into on FlatbinBuf::new()
slow_deserialize(type, value) == slow_deserialize_into(type, value, <<>>)

\* What a call of Ty::deserialize leaves in the buffer, whether it returns Ok
\* or Err: on the `?` of a failed element or field the function returns and
\* the sub-builders it opened go out of scope, a VectorBuilder through its
\* Drop, a TupleBuilder without one.  A scalar's error is returned before its
\* cursor is used.
RECURSIVE Ty_deserialize_unwind(_, _, _, _)
RECURSIVE Ty_deserialize_elements_unwind(_, _, _, _)
RECURSIVE Ty_deserialize_fields_unwind(_, _, _, _)

\* the loop over the elements up to the end or to the first `?` that returns
Ty_deserialize_elements_unwind(elem, array, i, b) ==
    IF i > Len(array) THEN b
    ELSE Strict1(LAMBDA r :
                     IF IsOk(r)
                     THEN Ty_deserialize_elements_unwind(elem, array, i + 1, r.val)
                     ELSE Ty_deserialize_unwind(elem, array[i], b, as_builder(b)),
                 Ty_deserialize(elem, array[i], b, as_builder(b)))

\* the loop over the fields up to the end or to the first `?` that returns
Ty_deserialize_fields_unwind(fields, object, i, b) ==
    IF i > Len(fields) THEN b
    ELSE IF ~IsSome(Map_get(object, fields[i].name)) THEN b
    ELSE Strict1(LAMBDA r :
                     IF IsOk(r)
                     THEN Ty_deserialize_fields_unwind(fields, object, i + 1, r.val)
                     ELSE Ty_deserialize_unwind(fields[i].ty, object[fields[i].name], b,
                                                as_builder(b)),
                 Ty_deserialize(fields[i].ty, object[fields[i].name], b, as_builder(b)))

Ty_deserialize_unwind(type, value, b, cur) ==
    CASE type.t = "Array" /\ IsSome(as_array(value)) ->
            VectorBuilder_drop(
                Ty_deserialize_elements_unwind(type.inner, as_array(value)[1], 1,
                                               start_vector(b, cur)))
      [] type.t = "Struct" /\ IsSome(as_object(value)) ->
            TupleBuilder_end(
                Ty_deserialize_fields_unwind(type.fields, as_object(value)[1], 1,
                                             start_tuple(b, cur)))
      [] OTHER ->
            Strict1(LAMBDA r : IF IsOk(r) THEN r.val ELSE b,
                    Ty_deserialize(type, value, b, cur))

\* the same call on a buffer cleared first
slow_deserialize_into_buffer_cleared(type, value, data) ==
    Ty_deserialize_unwind(type, value, EmptyBuf, Builder_new).buffer

\* the bytes of the caller's FlatbinBuf when slow::deserialize_into returns
slow_deserialize_into_buffer(type, value, data) ==
    Ty_deserialize_unwind(type, value, [buffer |-> data, frames |-> <<>>],
                          Builder_new).buffer

----------------------------------------------------------------------------
(* slow/ser.rs: flatbin -> JsonValue.  The iterators are lazy: the items of *)
(* a Sequence are taken one at a time and collecting stops at the first Err.*)

RECURSIVE Ty_serialize(_, _)
RECURSIVE Ty_serialize_elements(_, _)
RECURSIVE Ty_serialize_fields(_, _, _)

\* the first Err of a sequence of results, if any, else the panic that ended
\* the iteration, if any, else Ok(the values)
CollectResults(vals, stop) ==
    IF \E i \in 1..Len(vals) : ~IsOk(vals[i])
    THEN vals[CHOOSE i \in 1..Len(vals) :
                  ~IsOk(vals[i]) /\ \A m \in 1..(i - 1) : IsOk(vals[m])]
    ELSE IF IsSome(stop) THEN stop[1]
    ELSE R("ok", [i \in 1..Len(vals) |-> vals[i].val])

\* .iter().map(|bytes| inner.serialize(bytes)).collect::<Result<Vec<_>>>():
\* every item taken is serialized before the next is taken
Ty_serialize_elements(elem, it) ==
    Strict1(LAMBDA all :
                Strict2(CollectResults,
                        [i \in 1..Len(all.items) |-> Ty_serialize(elem, all.items[i])],
                        all.stop),
            SequenceIter_take(it, it.count))

\* fields.iter().zip(tuple).map(..).collect::<Result<Map<_, _>>>(), from field
\* i on: Ok(the (name, value) entries in order)
Ty_serialize_fields(fields, i, it) ==
    IF i > Len(fields) \/ it.count = 0 THEN R("ok", <<>>)
    ELSE AndThen(LAMBDA n :
                     AndThen(LAMBDA v :
                                 MapOk(LAMBDA more : <<Pair(fields[i].name, v)>> \o more,
                                       Ty_serialize_fields(fields, i + 1, n.iter)),
                             Ty_serialize(fields[i].ty, n.item)),
                 SequenceIter_next(it))

\* Map::from_iter: a later entry replaces an earlier one with the same key
Map_from_entries(entries) ==
    [key \in {entries[i].key : i \in 1..Len(entries)} |->
        entries[LastIndexOf(entries, key)].value]

\* Ty::serialize
Ty_serialize(type, data) ==
    CASE type.t = "Bool"   -> MapOk(VBool, read_bool(data))
      [] type.t = "U64"    -> MapOk(Value_from_u64, read_u64(data))
      [] type.t = "I64"    -> MapOk(Value_from_i64, read_i64(data))
      [] type.t = "F64"    -> MapOk(Value_from_f64, read_f64(data))
      [] type.t = "Bytes"  -> MapOk(Value_from_bytes, read_bytes(data))
      [] type.t = "String" -> MapOk(VString, read_string(data))
      [] type.t = "Array"  ->
            AndThen(LAMBDA array : MapOk(VArray, Ty_serialize_elements(type.inner, array)),
                    read_array(data))
      [] type.t = "Struct" ->
            AndThen(LAMBDA tuple :
                        MapOk(LAMBDA es : VObject(Map_from_entries(es)),
                              Ty_serialize_fields(type.fields, 1, tuple)),
                    read_tuple(data, Len(type.fields)))

\* slow::serialize
slow_serialize(type, data) == Ty_serialize(type, data)

----------------------------------------------------------------------------
(* fast/de.rs: JSON text -> flatbin, the visitors driven by serde_json's     *)
(* Deserializer.  Ok(b) is the buffer (with its live sub-builders) after the *)
(* value has been written.                                                   *)

\* a serde_json::Error, by its message
json_error(msg) == R("err", [e |-> "serde_json", msg |-> msg])

OUT_OF_RANGE == "value is outside numeric range for type"

\* the token is not one the requested deserialize_* method hands to a method
\* the visitor implements
invalid_type(tok, expecting) == json_error(<<"invalid type", tok.j, expecting>>)

BoolVisitor_visit_bool(b, cur, value) == R("ok", write_bool(b, cur, value))

UIntVisitor_visit_u64(b, cur, value) == R("ok", write_u64(b, cur, value))

\* u64::try_from(value) fails for a negative value
UIntVisitor_visit_i64(b, cur, value) ==
    IF value[64] = 1 THEN json_error(OUT_OF_RANGE)
    ELSE R("ok", write_u64(b, cur, value))

\* the same visitor casting with `as i64`
IntVisitor_visit_u64_cast(b, cur, value) == R("ok", write_i64(b, cur, value))

\* i64::try_from(value) fails above i64::MAX
IntVisitor_visit_u64(b, cur, value) ==
    IF value[64] = 1 THEN json_error(OUT_OF_RANGE)
    ELSE R("ok", write_i64(b, cur, value))

IntVisitor_visit_i64(b, cur, value) == R("ok", write_i64(b, cur, value))

FloatVisitor_visit_u64(b, cur, value) ==
    IF is_infinite(u64_as_f64(value)) THEN json_error(OUT_OF_RANGE)
    ELSE R("ok", write_f64(b, cur, u64_as_f64(value)))

FloatVisitor_visit_i64(b, cur, value) ==
    IF is_infinite(i64_as_f64(value)) THEN json_error(OUT_OF_RANGE)
    ELSE R("ok", write_f64(b, cur, i64_as_f64(value)))

FloatVisitor_visit_f64(b, cur, value) == R("ok", write_f64(b, cur, value))

BytesVisitor_visit_bytes(b, cur, value) == R("ok", write_bytes(b, cur, value))

StringVisitor_visit_str(b, cur, value) == R("ok", write_str(b, cur, value))

RECURSIVE TypedBuilder_deserialize(_, _, _, _)
RECURSIVE ArrayVisitor_elements(_, _, _, _)
RECURSIVE StructVisitor_entries(_, _, _, _, _)
RECURSIVE StructVisitor_write_out(_, _, _, _, _)

\* the loop of ArrayVisitor::visit_seq from element i on, into the innermost
\* (vector) sub-builder of b
ArrayVisitor_elements(elem, items, i, b) ==
    IF i > Len(items) THEN R("ok", b)
    ELSE AndThen(LAMBDA b1 : ArrayVisitor_elements(elem, items, i + 1, b1),
                 TypedBuilder_deserialize(elem, items[i], b, as_builder(b)))

ArrayVisitor_visit_seq(elem, items, b, cur) ==
    MapOk(VectorBuilder_drop, ArrayVisitor_elements(elem, items, 1, start_vector(b, cur)))

\* the first loop of StructVisitor::visit_map from pair i on: slots[k] is the
\* Option<(start, end)> of field k, staged the bytes of the temporary buffer
StructVisitor_entries(fields, pairs, i, slots, staged) ==
    IF i > Len(pairs) THEN R("ok", [slots |-> slots, staged |-> staged])
    ELSE LET key   == pairs[i].key
             found == {k \in 1..Len(fields) : fields[k].name = key}
         IN  IF found = {} THEN json_error(<<"unknown field", key>>)
             ELSE LET k == CHOOSE k \in found : \A m \in found : k <= m
                  IN  IF IsSome(slots[k]) THEN json_error(<<"duplicate field", key>>)
                      ELSE AndThen(LAMBDA b1 :
                                       StructVisitor_entries(
                                           fields, pairs, i + 1,
                                           [j \in 1..Len(slots) |->
                                               IF j = k
                                               THEN Some(<<Len(staged), Len(b1.buffer)>>)
                                               ELSE slots[j]],
                                           b1.buffer),
                                   TypedBuilder_deserialize(
                                       fields[k].ty, pairs[i].value,
                                       [buffer |-> staged, frames |-> <<>>], Builder_new))

\* the second loop of StructVisitor::visit_map from field i on, into the
\* innermost (tuple) sub-builder of b
StructVisitor_write_out(fields, slots, staged, i, b) ==
    IF i > Len(fields) THEN R("ok", b)
    ELSE IF ~IsSome(slots[i]) THEN json_error(<<"missing field", fields[i].name>>)
    ELSE StructVisitor_write_out(
             fields, slots, staged, i + 1,
             copy(b, as_builder(b), SubSeq(staged, slots[i][1][1] + 1, slots[i][1][2])))

\* the same visitor copying the staged values in the order they arrived (by
\* start offset), the fields with an empty slot after them
StructVisitor_visit_map_arrival_order(fields, pairs, b, cur) ==
    AndThen(LAMBDA st :
                LET slots   == st.slots
                    n       == Len(slots)
                    key(k)  == (IF IsSome(slots[k]) THEN slots[k][1][1]
                                ELSE Len(st.staged) + 1) * (n + 1) + k
                    rank(k) == Cardinality({m \in 1..n : key(m) < key(k)}) + 1
                    order   == [p \in 1..n |-> CHOOSE k \in 1..n : rank(k) = p]
                IN  MapOk(TupleBuilder_end,
                          StructVisitor_write_out(
                              [p \in 1..n |-> fields[order[p]]],
                              [p \in 1..n |-> slots[order[p]]],
                              st.staged, 1, start_tuple(b, cur))),
            StructVisitor_entries(fields, pairs, 1, [k \in 1..Len(fields) |-> None], <<>>))

\* the pairs without those whose key comes again later
LastOfEachKey(pairs) ==
    SelectSeq([i \in 1..Len(pairs) |-> [p |-> pairs[i],
                                        last |-> \A j \in (i + 1)..Len(pairs) :
                                                    pairs[j].key # pairs[i].key]],
              LAMBDA e : e.last)

\* the same visitor letting the last of several pairs with one key win, as a
\* serde_json Map does
StructVisitor_visit_map_last_wins(fields, pairs, b, cur) ==
    AndThen(LAMBDA st :
                MapOk(TupleBuilder_end,
                      StructVisitor_write_out(fields, st.slots, st.staged, 1,
                                              start_tuple(b, cur))),
            StructVisitor_entries(fields,
                                  [i \in 1..Len(LastOfEachKey(pairs)) |->
                                      LastOfEachKey(pairs)[i].p],
                                  1, [k \in 1..Len(fields) |-> None], <<>>))

StructVisitor_visit_map(fields, pairs, b, cur) ==
    AndThen(LAMBDA st :
                MapOk(TupleBuilder_end,
                      StructVisitor_write_out(fields, st.slots, st.staged, 1,
                                              start_tuple(b, cur))),
            StructVisitor_entries(fields, pairs, 1, [k \in 1..Len(fields) |-> None], <<>>))

\* TypedBuilder::deserialize on the token tok, writing through the cursor cur
\* of b.  deserialize_u64 / _i64 / _f64 hand a number token to the visitor
\* method of its ParserNumber; deserialize_bytes hands a string token to
\* visit_bytes and an array to visit_seq, which BytesVisitor does not have
TypedBuilder_deserialize(type, tok, b, cur) ==
    CASE type.t = "Bool" ->
            IF tok.j = "bool" THEN BoolVisitor_visit_bool(b, cur, tok.b)
            ELSE invalid_type(tok, "a boolean")
      [] type.t = "U64" ->
            IF tok.j \notin {"int", "float"} THEN invalid_type(tok, "a non-negative integer")
            ELSE Strict1(LAMBDA pn :
                             CASE pn.p = "U64" -> UIntVisitor_visit_u64(b, cur, pn.v)
                               [] pn.p = "I64" -> UIntVisitor_visit_i64(b, cur, pn.v)
                               [] pn.p = "F64" -> invalid_type(tok, "a non-negative integer"),
                         parse_integer(tok))
      [] type.t = "I64" ->
            IF tok.j \notin {"int", "float"} THEN invalid_type(tok, "an integer")
            ELSE Strict1(LAMBDA pn :
                             CASE pn.p = "U64" -> IntVisitor_visit_u64(b, cur, pn.v)
                               [] pn.p = "I64" -> IntVisitor_visit_i64(b, cur, pn.v)
                               [] pn.p = "F64" -> invalid_type(tok, "an integer"),
                         parse_integer(tok))
      [] type.t = "F64" ->
            IF tok.j \notin {"int", "float"} THEN invalid_type(tok, "a number")
            ELSE Strict1(LAMBDA pn :
                             CASE pn.p = "U64" -> FloatVisitor_visit_u64(b, cur, pn.v)
                               [] pn.p = "I64" -> FloatVisitor_visit_i64(b, cur, pn.v)
                               [] pn.p = "F64" -> FloatVisitor_visit_f64(b, cur, pn.v),
                         parse_integer(tok))
      [] type.t = "Bytes" ->
            IF tok.j = "string" THEN BytesVisitor_visit_bytes(b, cur, tok.s)
            ELSE invalid_type(tok, "a byte array")
      [] type.t = "String" ->
            IF tok.j = "string" THEN StringVisitor_visit_str(b, cur, tok.s)
            ELSE invalid_type(tok, "a string")
      [] type.t = "Array" ->
            IF tok.j = "array" THEN ArrayVisitor_visit_seq(type.inner, tok.items, b, cur)
            ELSE invalid_type(tok, "an array")
      [] type.t = "Struct" ->
            IF tok.j = "object" THEN StructVisitor_visit_map(type.fields, tok.pairs, b, cur)
            ELSE invalid_type(tok, "an object")

\* fast::deserialize_into on a FlatbinBuf holding the bytes data: Ok(the bytes
\* of the buffer after the call) or Err
fast_deserialize_into(type, txt, data) ==
    MapOk(LAMBDA b : b.buffer,
          TypedBuilder_deserialize(type, txt, [buffer |-> data, frames |-> <<>>],
                                   Builder_new))

\* fast::deserialize: deserialize_into on FlatbinBuf::new()
fast_deserialize(type, txt) == fast_deserialize_into(type, txt, <<>>)

\* What a call of TypedBuilder::deserialize leaves in the buffer, whether it
\* returns Ok or Err.  serde_json raises `invalid type` before it calls the
\* visitor, and a scalar visitor returns its error before it uses the cursor;
\* visit_seq returns on the `?` of a failed element and its VectorBuilder is
\* dropped; visit_map returns from its first loop with only the staging
\* buffer written, and from its second loop with the tuple begun.
RECURSIVE TypedBuilder_deserialize_unwind(_, _, _, _)
RECURSIVE ArrayVisitor_elements_unwind(_, _, _, _)

ArrayVisitor_elements_unwind(elem, items, i, b) ==
    IF i > Len(items) THEN b
    ELSE Strict1(LAMBDA r :
                     IF IsOk(r)
                     THEN ArrayVisitor_elements_unwind(elem, items, i + 1, r.val)
                     ELSE TypedBuilder_deserialize_unwind(elem, items[i], b, as_builder(b)),
                 TypedBuilder_deserialize(elem, items[i], b, as_builder(b)))

\* the second loop of visit_map up to the end or to the first missing field
RECURSIVE StructVisitor_write_out_unwind(_, _, _, _, _)
StructVisitor_write_out_unwind(fields, slots, staged, i, b) ==
    IF i > Len(fields) THEN b
    ELSE IF ~IsSome(slots[i]) THEN b
    ELSE StructVisitor_write_out_unwind(
             fields, slots, staged, i + 1,
             copy(b, as_builder(b), SubSeq(staged, slots[i][1][1] + 1, slots[i][1][2])))

TypedBuilder_deserialize_unwind(type, tok, b, cur) ==
    CASE type.t = "Array" /\ tok.j = "array" ->
            VectorBuilder_drop(
                ArrayVisitor_elements_unwind(type.inner, tok.items, 1, start_vector(b, cur)))
      [] type.t = "Struct" /\ tok.j = "object" ->
            Strict1(LAMBDA st :
                        IF ~IsOk(st) THEN b
                        ELSE TupleBuilder_end(
                                 StructVisitor_write_out_unwind(
                                     type.fields, st.val.slots, st.val.staged, 1,
                                     start_tuple(b, cur))),
                    StructVisitor_entries(type.fields, tok.pairs, 1,
                                          [k \in 1..Len(type.fields) |-> None], <<>>))
      [] OTHER ->
            Strict1(LAMBDA r : IF IsOk(r) THEN r.val ELSE b,
                    TypedBuilder_deserialize(type, tok, b, cur))

\* the bytes of the caller's FlatbinBuf when fast::deserialize_into returns
fast_deserialize_into_buffer(type, txt, data) ==
    TypedBuilder_deserialize_unwind(type, txt, [buffer |-> data, frames |-> <<>>],
                                    Builder_new).buffer

----------------------------------------------------------------------------
(* fast/ser.rs: flatbin -> JSON through serde_json::value::Serializer, which *)
(* builds the Value: serialize_u64 / _i64 / _f64 / _bytes make the Values of *)
(* Value::from, serialize_seq a Vec and serialize_map a Map.                 *)

\* corrupt, applied by map_err: a reader's Err becomes "corrupt document"
corrupt(r) == Strict1(LAMBDA a : IF IsErr(a) THEN json_error("corrupt document") ELSE a, r)

RECURSIVE TypedValue_serialize(_, _)
RECURSIVE TypedValue_serialize_fields(_, _, _)

\* for value in array { seq.serialize_element(&ctx)? }
TypedValue_serialize_elements(elem, it) ==
    Strict1(LAMBDA all :
                Strict2(CollectResults,
                        [i \in 1..Len(all.items) |-> TypedValue_serialize(elem, all.items[i])],
                        all.stop),
            SequenceIter_take(it, it.count))

\* for (field, value) in fields.iter().zip(tuple) { map.serialize_entry(..)? },
\* from field i on: Ok(the (name, value) entries in order)
TypedValue_serialize_fields(fields, i, it) ==
    IF i > Len(fields) \/ it.count = 0 THEN R("ok", <<>>)
    ELSE AndThen(LAMBDA n :
                     AndThen(LAMBDA v :
                                 MapOk(LAMBDA more : <<Pair(fields[i].name, v)>> \o more,
                                       TypedValue_serialize_fields(fields, i + 1, n.iter)),
                             TypedValue_serialize(fields[i].ty, n.item)),
                 SequenceIter_next(it))

\* TypedValue::serialize
TypedValue_serialize(type, value) ==
    CASE type.t = "Bool"   -> MapOk(VBool, corrupt(read_bool(value)))
      [] type.t = "U64"    -> MapOk(Value_from_u64, corrupt(read_u64(value)))
      [] type.t = "I64"    -> MapOk(Value_from_i64, corrupt(read_i64(value)))
      [] type.t = "F64"    -> MapOk(Value_from_f64, corrupt(read_f64(value)))
      [] type.t = "Bytes"  -> MapOk(Value_from_bytes, corrupt(read_bytes(value)))
      [] type.t = "String" -> MapOk(VString, corrupt(read_str(value)))
      [] type.t = "Array"  ->
            AndThen(LAMBDA array :
                        MapOk(VArray, TypedValue_serialize_elements(type.inner, array)),
                    corrupt(read_array(value)))
      [] type.t = "Struct" ->
            AndThen(LAMBDA tuple :
                        MapOk(LAMBDA es : VObject(Map_from_entries(es)),
                              TypedValue_serialize_fields(type.fields, 1, tuple)),
                    corrupt(read_tuple(value, Len(type.fields))))

\* fast::serialize with serde_json::value::Serializer
fast_serialize(type, value) == TypedValue_serialize(type, value)

----------------------------------------------------------------------------
(* The codecs as a state machine.  A schema and a JSON text are drawn; the  *)
(* slow deserializer is applied to the parsed text and the fast one to the  *)
(* text itself, each serializer to the bytes its deserializer gave, and the *)
(* fast deserializer once more to the text with its keys permuted.  A       *)
(* result not yet computed is None, a computed one Some(result).            *)

\* the struct schemas tried: Person is the schema of tests.rs and fast/mod.rs,
\* Language the inner schema of benches/serde.rs, Developer an array of structs
\* inside a struct (as in benches/serde.rs), Profile a struct inside a struct
\* with an F64 field, Record a struct with Bytes, F64 and I64 fields
Schemas ==
    LET Language == struct_def(<<Field("name", Ty.String), Field("liked", Ty.Bool),
                                 Field("experience", Ty.U64)>>)
    IN  [Person    |-> struct_def(<<Field("name", Ty.String), Field("age", Ty.U64),
                                    Field("hobbies", array_def(Ty.String)),
                                    Field("rustacean", Ty.Bool)>>),
         Language  |-> Language,
         Developer |-> struct_def(<<Field("name", Ty.String),
                                    Field("languages", array_def(Language))>>),
         Profile   |-> struct_def(<<Field("languages", Language),
                                    Field("experience", Ty.F64)>>),
         Record    |-> struct_def(<<Field("name", Ty.Bytes), Field("experience", Ty.F64),
                                    Field("age", Ty.I64)>>),
         Unit      |-> struct_def(<<>>)]

\* the object made of the pairs at the given positions, in that order
Pick(pairs, order) == JObj([i \in 1..Len(order) |-> pairs[order[i]]])

\* the schemas with the texts tried against each.  Number tokens: small and
\* large literals, the ends of the u64 and i64 ranges, -0, a literal below
\* i64::MIN, 2^53 + 1, and literals with a fraction (1.5, -2.5, 5.0); strings:
\* empty, ASCII, two-byte UTF-8 and 64 bytes long; objects with their keys in
\* schema order, in the Map's order and in other orders, with an extra key, a
\* repeated key, a missing key and a value of the wrong kind
CodecInputs ==
    LET Num(n)         == JInt(FALSE, U64OfNat(n))
        NegativeNum(n) == JInt(TRUE, U64OfNat(n))
        F64_1_5        == Or64(Shl(U64OfNat(1023), 52), Word2(51))
        F64_minus_2_5  == Or64(Or64(Shl(U64OfNat(1024), 52), Word2(50)), Word2(63))
        StrAl          == <<65, 108>>
        StrMu          == <<109, 117>>
        StrPro         == <<112, 114, 111>>
        StrEAcute      == <<195, 169>>
        NumberTokens ==
            { Num(0), Num(5), Num(27), Num(200), Num(300),
              JInt(FALSE, LowOnes(63)), JInt(FALSE, Word2(63)), JInt(FALSE, LowOnes(64)),
              JInt(FALSE, Or64(Word2(53), Word2(0))),
              NegativeNum(0), NegativeNum(1), NegativeNum(3),
              JInt(TRUE, Word2(63)), JInt(TRUE, Or64(Word2(63), Word2(0))),
              JFloat(F64_1_5), JFloat(F64_minus_2_5), JFloat(u64_as_f64(U64OfNat(5))) }
        ScalarTokens ==
            NumberTokens \cup
            { JNull, JBool(TRUE), JBool(FALSE),
              JStr(<<>>), JStr(StrAl), JStr(StrEAcute), JStr(Body64),
              JArr(<<>>), JArr(<<Num(1), Num(2)>>), JArr(<<Num(0), Num(255), Num(128)>>),
              JArr(<<Num(1), Num(300)>>), JArr(<<Num(200), JFloat(F64_1_5)>>),
              JObj(<<>>) }
        ScalarTypes == {Ty.Bool, Ty.U64, Ty.I64, Ty.F64, Ty.Bytes, Ty.String}
        PersonPairs ==
            <<Pair("name", JStr(StrAl)), Pair("age", Num(27)),
              Pair("hobbies", JArr(<<JStr(StrMu), JStr(StrPro)>>)),
              Pair("rustacean", JBool(TRUE))>>
        PersonTexts ==
            { Pick(PersonPairs, <<1, 2, 3, 4>>),
              Pick(PersonPairs, <<2, 3, 1, 4>>),
              JObj(PersonPairs \o <<Pair("liked", JBool(TRUE))>>),
              JObj(<<Pair("age", Num(5))>> \o PersonPairs),
              Pick(PersonPairs, <<1, 2, 3>>),
              JObj(<<Pair("age", JStr(StrAl)), PersonPairs[3], PersonPairs[1],
                     PersonPairs[4]>>),
              JObj(<<Pair("age", JStr(StrAl)), PersonPairs[1]>>),
              JObj(<<Pair("age", Num(200)), Pair("hobbies", JArr(<<>>)),
                     Pair("name", JStr(Body64)), Pair("rustacean", JBool(FALSE))>>),
              JArr(<<>>) }
        Rust == <<Pair("name", JStr(StrAl)), Pair("liked", JBool(TRUE)),
                  Pair("experience", Num(5))>>
        Php  == <<Pair("experience", Num(0)), Pair("liked", JBool(FALSE)),
                  Pair("name", JStr(<<>>))>>
        DeveloperTexts ==
            { JObj(<<Pair("name", JStr(StrMu)),
                     Pair("languages", JArr(<<JObj(Rust), JObj(Php)>>))>>),
              JObj(<<Pair("languages", JArr(<<Pick(Rust, <<3, 2, 1>>), JObj(Php)>>)),
                     Pair("name", JStr(StrMu))>>),
              JObj(<<Pair("languages", JArr(<<>>)), Pair("name", JStr(<<>>))>>),
              JObj(<<Pair("languages", JArr(<<Pick(Rust, <<1, 2>>)>>)),
                     Pair("name", JStr(StrMu))>>) }
        ProfileTexts ==
            { JObj(<<Pair("experience", Num(5)), Pair("languages", Pick(Rust, <<3, 2, 1>>))>>),
              JObj(<<Pair("experience", JFloat(F64_1_5)),
                     Pair("languages", Pick(Rust, <<3, 2, 1>>))>>),
              JObj(<<Pair("languages", JObj(Rust)), Pair("experience", JFloat(F64_minus_2_5))>>),
              JObj(<<Pair("languages", JObj(Rust \o <<Pair("liked", JBool(FALSE))>>)),
                     Pair("experience", NegativeNum(3))>>) }
        RecordTexts ==
            { JObj(<<Pair("age", NegativeNum(3)), Pair("experience", JFloat(F64_1_5)),
                     Pair("name", JArr(<<Num(1), Num(200)>>))>>),
              JObj(<<Pair("age", Num(5)), Pair("experience", Num(5)),
                     Pair("name", JArr(<<Num(1), Num(2)>>))>>),
              JObj(<<Pair("name", JStr(StrAl)), Pair("experience", JFloat(F64_1_5)),
                     Pair("age", Num(5))>>),
              JObj(<<Pair("age", Num(5)), Pair("experience", JFloat(F64_1_5)),
                     Pair("name", JArr(<<Num(1), Num(300)>>))>>) }
    IN  {[ty |-> t, text |-> x] : t \in ScalarTypes, x \in ScalarTokens}
        \cup {[ty |-> array_def(Ty.U64), text |-> x] :
                x \in { JArr(<<>>), JArr(<<Num(56)>>), JArr(<<Num(0)>>),
                        JArr(<<Num(0), Num(0)>>),
                        JArr(<<Num(1), Num(200), JInt(FALSE, LowOnes(64))>>),
                        JArr(<<Num(1), NegativeNum(1)>>), JStr(StrAl) }}
        \cup {[ty |-> array_def(array_def(Ty.U64)), text |-> x] :
                x \in { JArr(<<JArr(<<>>), JArr(<<Num(1)>>)>>), JArr(<<JArr(<<>>)>>),
                        JArr(<<JArr(<<Num(1), Num(2)>>), JArr(<<>>), JArr(<<Num(300)>>)>>) }}
        \cup {[ty |-> array_def(Ty.String), text |-> x] :
                x \in { JArr(<<JStr(StrMu), JStr(StrPro)>>), JArr(<<JStr(<<>>)>>),
                        JArr(<<JStr(<<>>), JStr(<<>>)>>),
                        JArr(<<JStr(Body64), JStr(StrAl)>>) }}
        \cup {[ty |-> array_def(Ty.Bytes), text |-> x] :
                x \in { JArr(<<JArr(<<Num(1), Num(2)>>), JArr(<<Num(3)>>)>>),
                        JArr(<<JStr(StrAl), JStr(<<>>)>>) }}
        \cup {[ty |-> array_def(Ty.F64), text |-> x] :
                x \in { JArr(<<JFloat(F64_1_5), JFloat(F64_minus_2_5)>>),
                        JArr(<<JFloat(F64_1_5), Num(5)>>) }}
        \cup {[ty |-> Schemas.Person, text |-> x] : x \in PersonTexts}
        \cup {[ty |-> Schemas.Developer, text |-> x] : x \in DeveloperTexts}
        \cup {[ty |-> Schemas.Profile, text |-> x] : x \in ProfileTexts}
        \cup {[ty |-> Schemas.Record, text |-> x] : x \in RecordTexts}
        \cup {[ty |-> Schemas.Unit, text |-> x] :
                x \in {JObj(<<>>), JObj(<<Pair("age", Num(1))>>)}}

\* the text with the pairs of every object, at every depth, in reverse order
RECURSIVE ReverseKeys(_)
ReverseKeys(tok) ==
    CASE tok.j = "array"  -> JArr([i \in 1..Len(tok.items) |-> ReverseKeys(tok.items[i])])
      [] tok.j = "object" ->
            JObj([i \in 1..Len(tok.pairs) |->
                    Pair(tok.pairs[Len(tok.pairs) + 1 - i].key,
                         ReverseKeys(tok.pairs[Len(tok.pairs) + 1 - i].value))])
      [] OTHER -> tok

\* texts that differ from tok only by a permutation of object keys: every
\* order of the outermost pairs, the nested objects as they are or reversed
KeyPermutations(tok) ==
    IF tok.j = "object"
    THEN {Pick(q.pairs, p) : p \in Permutations(1..Len(tok.pairs)),
                             q \in {tok, ReverseKeys(tok)}}
    ELSE {tok, ReverseKeys(tok)}

CodecInit ==
    /\ \E inp \in CodecInputs : ty = inp.ty /\ text = inp.text
    /\ text2 = None
    /\ flat = Idle
    /\ slowBuf = None /\ fastBuf = None /\ fastBuf2 = None
    /\ slowOut = None /\ fastOut = None
    /\ overflow_checks = TRUE
    /\ numIdle
    /\ builderIdle

\* slow::deserialize(&ty, &serde_json::from_str(text))
SlowDeserialize ==
    /\ slowBuf = None
    /\ slowBuf' = Some(slow_deserialize(ty, from_str(text).val))
    /\ UNCHANGED <<numVars, builderVars, ty, text, text2, flat, fastBuf, fastBuf2,
                   slowOut, fastOut, overflow_checks>>

\* slow::serialize(&ty, &bytes) on the bytes slow::deserialize returned
SlowSerialize ==
    /\ slowBuf # None /\ IsOk(slowBuf[1])
    /\ slowOut = None
    /\ slowOut' = Some(slow_serialize(ty, slowBuf[1].val))
    /\ UNCHANGED <<numVars, builderVars, ty, text, text2, flat, slowBuf, fastBuf, fastBuf2,
                   fastOut, overflow_checks>>

\* fast::deserialize(&ty, text)
FastDeserialize ==
    /\ fastBuf = None
    /\ fastBuf' = Some(fast_deserialize(ty, text))
    /\ UNCHANGED <<numVars, builderVars, ty, text, text2, flat, slowBuf, fastBuf2,
                   slowOut, fastOut, overflow_checks>>

\* fast::serialize(serde_json::value::Serializer, &ty, &bytes) on the bytes
\* fast::deserialize returned
FastSerialize ==
    /\ fastBuf # None /\ IsOk(fastBuf[1])
    /\ fastOut = None
    /\ fastOut' = Some(fast_serialize(ty, fastBuf[1].val))
    /\ UNCHANGED <<numVars, builderVars, ty, text, text2, flat, slowBuf, fastBuf, fastBuf2,
                   slowOut, overflow_checks>>

\* fast::deserialize(&ty, text2) for a text2 that is text with its keys permuted
FastDeserializePermuted ==
    /\ fastBuf # None
    /\ text2 = None
    /\ \E p \in KeyPermutations(text) :
          /\ text2' = Some(p)
          /\ fastBuf2' = Some(fast_deserialize(ty, p))
    /\ UNCHANGED <<numVars, builderVars, ty, text, flat, slowBuf, fastBuf,
                   slowOut, fastOut, overflow_checks>>

CodecNext ==
    \/ SlowDeserialize
    \/ SlowSerialize
    \/ FastDeserialize
    \/ FastSerialize
    \/ FastDeserializePermuted

SpecCodec == CodecInit /\ [][CodecNext]_vars

----------------------------------------------------------------------------
(* Claims about the codecs (checked under SpecCodec).                       *)

\* the JSON value of the text
Doc == from_str(text).val

\* a JSON value conforms to a schema: the kind the schema asks for at every
\* position (U64 a non-negative integer, I64 an integer in the i64 range, F64
\* any number, Bytes an array of integers 0..255), an object with exactly the
\* struct's keys
RECURSIVE Conforms(_, _)
Conforms(type, v) ==
    CASE type.t = "Bool"   -> v.k = "bool"
      [] type.t = "U64"    -> v.k = "number" /\ v.n.n = "PosInt"
      [] type.t = "I64"    -> /\ v.k = "number"
                              /\ \/ v.n.n = "NegInt"
                                 \/ v.n.n = "PosInt" /\ v.n.v[64] = 0
      [] type.t = "F64"    -> v.k = "number"
      [] type.t = "Bytes"  -> /\ v.k = "array"
                              /\ \A i \in 1..Len(v.items) :
                                    /\ v.items[i].k = "number"
                                    /\ v.items[i].n.n = "PosInt"
                                    /\ \A m \in 9..64 : v.items[i].n.v[m] = 0
      [] type.t = "String" -> v.k = "string"
      [] type.t = "Array"  -> /\ v.k = "array"
                              /\ \A i \in 1..Len(v.items) : Conforms(type.inner, v.items[i])
      [] type.t = "Struct" -> /\ v.k = "object"
                              /\ DOMAIN v.map = {type.fields[i].name : i \in 1..Len(type.fields)}
                              /\ \A i \in 1..Len(type.fields) :
                                    Conforms(type.fields[i].ty, v.map[type.fields[i].name])

\* the conforming value with every number at an F64 position as the float it
\* converts to
RECURSIVE FloatsAtF64(_, _)
FloatsAtF64(type, v) ==
    CASE type.t = "F64"    -> VNumber(Float(as_f64(v)[1]))
      [] type.t = "Array"  ->
            VArray([i \in 1..Len(v.items) |-> FloatsAtF64(type.inner, v.items[i])])
      [] type.t = "Struct" ->
            VObject([key \in DOMAIN v.map |->
                        LET i == CHOOSE i \in 1..Len(type.fields) : type.fields[i].name = key
                        IN  FloatsAtF64(type.fields[i].ty, v.map[key])])
      [] OTHER -> v

\* the conforming value holds a float at every F64 position
RECURSIVE NoIntegerAtF64(_, _)
NoIntegerAtF64(type, v) ==
    CASE type.t = "F64"    -> v.n.n = "Float"
      [] type.t = "Array"  ->
            \A i \in 1..Len(v.items) : NoIntegerAtF64(type.inner, v.items[i])
      [] type.t = "Struct" ->
            \A i \in 1..Len(type.fields) :
                NoIntegerAtF64(type.fields[i].ty, v.map[type.fields[i].name])
      [] OTHER -> TRUE

\* C1 as stated: for every schema T and every JSON value v conforming to T,
\* slow.serialize(T, slow.deserialize(T, v)) succeeds and returns a JSON value
\* equal to v.
C1_SlowRoundTripAsStated ==
    Conforms(ty, Doc) =>
        /\ slowBuf # None => IsOk(slowBuf[1])
        /\ slowOut # None => IsOk(slowOut[1]) /\ Value_eq(slowOut[1].val, Doc)

\* C1 (amended): for every schema T and every JSON value v conforming to T,
\* slow.deserialize(T, v) and slow.serialize on its bytes succeed, and the
\* value returned is v with every integer at an F64 position replaced by the
\* float it converts to; it is equal to v when v holds a float at every F64
\* position.
C1_SlowRoundTrip ==
    Conforms(ty, Doc) =>
        /\ slowBuf # None => IsOk(slowBuf[1])
        /\ slowOut # None =>
              /\ IsOk(slowOut[1])
              /\ Value_eq(slowOut[1].val, FloatsAtF64(ty, Doc))
              /\ NoIntegerAtF64(ty, Doc) => Value_eq(slowOut[1].val, Doc)

\* a conforming nested struct with an integer at its F64 field has made the
\* round trip
C1_Witness ==
    /\ ty = Schemas.Profile
    /\ Conforms(ty, Doc)
    /\ ~NoIntegerAtF64(ty, Doc)
    /\ slowOut # None
    /\ IsOk(slowOut[1])
    /\ slowOut[1].val.map["experience"].n.n = "Float"

\* C2 as stated: for every schema T (all eight Ty cases, Bytes included) and
\* every JSON value v conforming to T, fast.serialize(T, fast.deserialize(T,
\* text of v)) succeeds and yields a JSON value equal to v.
C2_FastRoundTripAsStated ==
    (Conforms(ty, Doc) /\ text = to_string(Doc)) =>
        /\ fastBuf # None => IsOk(fastBuf[1])
        /\ fastOut # None => IsOk(fastOut[1]) /\ Value_eq(fastOut[1].val, Doc)

\* C3 as stated: for every schema T and JSON text s, fast.deserialize(T, s)
\* and slow.deserialize(T, parse_json(s)) either both fail or both succeed
\* with identical bytes.
C3_FastSlowEquivalenceAsStated ==
    (slowBuf # None /\ fastBuf # None) =>
        \/ ~IsOk(slowBuf[1]) /\ ~IsOk(fastBuf[1])
        \/ IsOk(slowBuf[1]) /\ IsOk(fastBuf[1]) /\ slowBuf[1].val = fastBuf[1].val

\* the value of the pair with this key
ValueAt(pairs, key) == pairs[LastIndexOf(pairs, key)].value

\* the flatbin bytes of a text the fast deserializer accepts, written with the
\* fields of every struct in schema order: a struct is its fields' bytes in
\* sequence framing, an array its count and its elements' bytes in sequence
\* framing, a scalar the body the fast deserializer writes for it
RECURSIVE SchemaOrderBytes(_, _)
SchemaOrderBytes(type, tok) ==
    CASE type.t = "Struct" ->
            Framed([i \in 1..Len(type.fields) |->
                       SchemaOrderBytes(type.fields[i].ty,
                                        ValueAt(tok.pairs, type.fields[i].name))])
      [] type.t = "Array" ->
            IF Len(tok.items) = 0 THEN <<>>
            ELSE VarInt_as_bytes(VarInt_from_u64(U64OfNat(Len(tok.items))))
                 \o Framed([i \in 1..Len(tok.items) |->
                               SchemaOrderBytes(type.inner, tok.items[i])])
      [] OTHER -> fast_deserialize(type, tok).val

\* C4: for two JSON inputs that differ only by a permutation of object keys
\* (at any nesting depth), fast.deserialize fails on both or gives identical
\* flatbin bytes on both, equal to the bytes obtained by writing the fields in
\* schema order.
C4_KeyOrderIndependence ==
    fastBuf2 # None =>
        /\ IsOk(fastBuf2[1]) <=> IsOk(fastBuf[1])
        /\ IsOk(fastBuf2[1]) =>
              /\ fastBuf2[1].val = fastBuf[1].val
              /\ fastBuf2[1].val = SchemaOrderBytes(ty, text2[1])

\* the struct with an array of structs has been deserialized from a text whose
\* keys come in another order, at the top and inside the array
C4_Witness ==
    /\ ty = Schemas.Developer
    /\ fastBuf2 # None
    /\ IsOk(fastBuf2[1])
    /\ text2[1].pairs[1].key # text.pairs[1].key
    /\ text2[1].pairs[1].key = "languages"
    /\ text2[1].pairs[1].value.items[1].pairs[1].key
           # ValueAt(text.pairs, "languages").items[1].pairs[1].key

----------------------------------------------------------------------------
(* The serializers on bytes no builder made.  A schema and a byte string    *)
(* are drawn, for either build profile, and slow::serialize and             *)
(* fast::serialize are each applied once.                                   *)

\* the byte strings tried: those of up to MaxGarbageLen bytes over small
\* literals, a count of 99, a 1-byte node header declaring a body of 5 bytes
\* (0x85) and 0xFE, in which a byte with the high bit set is the last one or is
\* followed by 0 or 1 (so that an array count read from the string is below
\* 256); the bytes of the garbage_data test of tests.rs; and a varint of
\* eleven bytes, whose last shift is by 70 bits; the eight bytes of the f64
\* 1.0, and the same with a ninth byte
GarbageInputs ==
    LET GarbageBytes == {0, 1, 2, 99, 133, 254}
        GarbageOfLen(n) ==
            {s \in [1..n -> GarbageBytes] :
                \A i \in 1..(n - 1) : s[i] >= 128 => s[i + 1] <= 1}
        GarbageData == <<5, 1, 99, 254, 0, 0, 11>>
        LongVarint  == [i \in 1..11 |-> IF i < 11 THEN 128 ELSE 1]
        EightBytes  == <<0, 0, 0, 0, 0, 0, 240, 63>>
    IN  UNION {GarbageOfLen(n) : n \in 0..MaxGarbageLen}
        \cup {GarbageData, LongVarint, EightBytes, EightBytes \o <<0>>}

GarbageInit ==
    /\ ty \in {Schemas.Person, array_def(Ty.U64), array_def(Ty.String),
               array_def(array_def(Ty.Bool)), Ty.Bool, Ty.U64, Ty.I64, Ty.F64}
    /\ flat \in GarbageInputs
    /\ overflow_checks \in BOOLEAN
    /\ slowOut = None
    /\ fastOut = None
    /\ text = Idle /\ text2 = Idle
    /\ slowBuf = Idle /\ fastBuf = Idle /\ fastBuf2 = Idle
    /\ numIdle
    /\ builderIdle

\* slow::serialize(&ty, Flatbin::from_bytes(flat))
GarbageSerialize ==
    /\ slowOut = None
    /\ slowOut' = Some(slow_serialize(ty, flat))
    /\ UNCHANGED <<numVars, builderVars, ty, text, text2, flat, slowBuf, fastBuf, fastBuf2,
                   fastOut, overflow_checks>>

\* fast::serialize(serde_json::value::Serializer, &ty, Flatbin::from_bytes(flat))
GarbageFastSerialize ==
    /\ fastOut = None
    /\ fastOut' = Some(fast_serialize(ty, flat))
    /\ UNCHANGED <<numVars, builderVars, ty, text, text2, flat, slowBuf, fastBuf, fastBuf2,
                   slowOut, overflow_checks>>

GarbageNext ==
    \/ GarbageSerialize
    \/ GarbageFastSerialize

SpecGarbage == GarbageInit /\ [][GarbageNext]_vars

----------------------------------------------------------------------------
(* Claims about garbage input (checked under SpecGarbage).                  *)

\* C10 as stated: for every schema and every byte string, slow.serialize
\* returns a JSON value or an error and never panics or indexes out of bounds;
\* a node header inside a tuple or array that declares a body longer than the
\* bytes remaining does not abort.
C10_GarbageSafeAsStated == slowOut # None => ~IsPanic(slowOut[1])

----------------------------------------------------------------------------
(* Claims about the errors of the slow deserializer (checked under          *)
(* SpecCodec).                                                              *)

\* the name unexpected_type gives to the JSON kind of a value
KindName(v) ==
    CASE v.k = "null"   -> "null"
      [] v.k = "bool"   -> "a boolean"
      [] v.k = "number" -> "a number"
      [] v.k = "string" -> "a string"
      [] v.k = "array"  -> "an array"
      [] v.k = "object" -> "an object"

\* the JSON kind of v is not the one the type requires
KindMismatch(type, v) ==
    CASE type.t = "Bool"   -> v.k # "bool"
      [] type.t = "U64"    -> ~(v.k = "number" /\ v.n.n = "PosInt")
      [] type.t = "I64"    -> ~(v.k = "number" /\ v.n.n \in {"PosInt", "NegInt"})
      [] type.t = "F64"    -> v.k # "number"
      [] type.t = "String" -> v.k # "string"
      [] type.t = "Bytes"  -> v.k # "array"
      [] type.t = "Array"  -> v.k # "array"
      [] type.t = "Struct" -> v.k # "object"

\* a value the deserializer reaches (the value itself, an element of an array
\* or a field of a struct, at any depth) is of a kind its type does not take
RECURSIVE MismatchWithin(_, _)
MismatchWithin(type, v) ==
    \/ KindMismatch(type, v)
    \/ /\ type.t = "Array"
       /\ \E i \in 1..Len(v.items) : MismatchWithin(type.inner, v.items[i])
    \/ /\ type.t = "Struct"
       /\ \E i \in 1..Len(type.fields) :
              /\ type.fields[i].name \in DOMAIN v.map
              /\ MismatchWithin(type.fields[i].ty, v.map[type.fields[i].name])

\* C11: for every Ty and every JSON value whose kind is not the one the Ty
\* requires, slow.deserialize returns Error::UnexpectedType whose `got` names
\* the value's actual JSON kind; no value of another kind is coerced: where a
\* value the deserializer reaches is of the wrong kind, no bytes are returned.
C11_UnexpectedType ==
    slowBuf # None =>
        /\ KindMismatch(ty, Doc) =>
              /\ IsErr(slowBuf[1])
              /\ slowBuf[1].val.e = "UnexpectedType"
              /\ slowBuf[1].val.got = KindName(Doc)
        /\ MismatchWithin(ty, Doc) => IsErr(slowBuf[1])

\* the unexpected_type test of tests.rs: a string was given for a Bool
C11_Witness ==
    /\ slowBuf # None
    /\ ty = Ty.Bool
    /\ Doc.k = "string"
    /\ IsErr(slowBuf[1])
    /\ slowBuf[1].val.got = "a string"

----------------------------------------------------------------------------
(* deserialize_into on a buffer that already holds bytes.  A schema, a JSON *)
(* text and the bytes of the buffer are drawn; each deserialize_into is     *)
(* applied to the buffer as it was.                                         *)

\* the contents of the buffer before the call: new or cleared, or left over
\* from an earlier document
PriorContents == {<<>>, <<7>>, <<200, 1>>}

\* the outcome of a deserialize_into call: its Result, and the bytes of the
\* caller's buffer when it returned
WithBuffer(r, bytes) == [tag |-> r.tag, val |-> r.val, buffer |-> bytes]

IntoInit ==
    /\ \E inp \in CodecInputs : ty = inp.ty /\ text = inp.text
    /\ flat \in PriorContents
    /\ slowBuf = None /\ fastBuf = None
    /\ text2 = Idle /\ fastBuf2 = Idle /\ slowOut = Idle /\ fastOut = Idle
    /\ overflow_checks = TRUE
    /\ numIdle
    /\ builderIdle

\* slow::deserialize_into(&ty, &serde_json::from_str(text), &mut buffer)
SlowDeserializeInto ==
    /\ slowBuf = None
    /\ slowBuf' = Some(WithBuffer(slow_deserialize_into(ty, from_str(text).val, flat),
                                  slow_deserialize_into_buffer(ty, from_str(text).val, flat)))
    /\ UNCHANGED <<numVars, builderVars, ty, text, text2, flat, fastBuf, fastBuf2,
                   slowOut, fastOut, overflow_checks>>

\* fast::deserialize_into(&ty, text, &mut buffer)
FastDeserializeInto ==
    /\ fastBuf = None
    /\ fastBuf' = Some(WithBuffer(fast_deserialize_into(ty, text, flat),
                                  fast_deserialize_into_buffer(ty, text, flat)))
    /\ UNCHANGED <<numVars, builderVars, ty, text, text2, flat, slowBuf, fastBuf2,
                   slowOut, fastOut, overflow_checks>>

IntoNext == SlowDeserializeInto \/ FastDeserializeInto

SpecInto == IntoInit /\ [][IntoNext]_vars

----------------------------------------------------------------------------
(* Claims about deserialize_into (checked under SpecInto).                  *)

\* C12 as stated: after a successful slow.deserialize_into or
\* fast.deserialize_into(ty, v, buffer) the bytes of the buffer equal the bytes
\* returned by the corresponding deserialize(ty, v), whatever the buffer
\* contained before the call.
C12_IntoEqualsDeserializeAsStated ==
    /\ (slowBuf # None /\ IsOk(slowBuf[1])) =>
            slowBuf[1].val = slow_deserialize(ty, Doc).val
    /\ (fastBuf # None /\ IsOk(fastBuf[1])) =>
            fastBuf[1].val = fast_deserialize(ty, text).val

\* C12 (amended): deserialize_into succeeds exactly when the corresponding
\* deserialize(ty, v) does, and after a successful call the buffer holds the
\* bytes it held before followed by the bytes deserialize(ty, v) returns; on
\* an empty buffer (new or cleared) these are the bytes of deserialize(ty, v).
C12_IntoAppends ==
    /\ slowBuf # None =>
          /\ IsOk(slowBuf[1]) <=> IsOk(slow_deserialize(ty, Doc))
          /\ IsOk(slowBuf[1]) => slowBuf[1].val = flat \o slow_deserialize(ty, Doc).val
          /\ (IsOk(slowBuf[1]) /\ flat = <<>>) =>
                slowBuf[1].val = slow_deserialize(ty, Doc).val
    /\ fastBuf # None =>
          /\ IsOk(fastBuf[1]) <=> IsOk(fast_deserialize(ty, text))
          /\ IsOk(fastBuf[1]) => fastBuf[1].val = flat \o fast_deserialize(ty, text).val
          /\ (IsOk(fastBuf[1]) /\ flat = <<>>) =>
                fastBuf[1].val = fast_deserialize(ty, text).val

\* both calls succeeded on a buffer that held two bytes, for the struct with
\* an array of structs
C12_Witness ==
    /\ ty = Schemas.Developer
    /\ flat = <<200, 1>>
    /\ slowBuf # None /\ IsOk(slowBuf[1])
    /\ fastBuf # None /\ IsOk(fastBuf[1])
    /\ Len(fastBuf[1].val) > 10

\* the array read from the bytes has two or more items and the node header
\* of its first item does not decode
FirstHeaderFails ==
    /\ ty.t = "Array"
    /\ IsOk(read_array(flat))
    /\ read_array(flat).val.count >= 2
    /\ IsErr(read_node_header(read_array(flat).val.data))

\* C13 as stated: whenever a node header fails to decode while iterating a
\* Sequence, the iterator yields an empty child in its place, and parsing that
\* child with the reader for its schema type returns an error, so that the
\* caller observes the decoding error.
C13_DeferredErrorAsStated ==
    (slowOut # None /\ FirstHeaderFails) =>
        /\ IsOk(SequenceIter_next(read_array(flat).val))
        /\ SequenceIter_next(read_array(flat).val).val.item = <<>>
        /\ IsErr(Ty_serialize(ty.inner, <<>>))
        /\ IsErr(slowOut[1])

----------------------------------------------------------------------------
(* Claims about the scalar write paths (checked under SpecNum).             *)

\* the little-endian bytes of v truncated to the fewest whole bytes that hold
\* it (none for 0)
MinimalLE(v) == Take(to_le_bytes(v), (BitsOf(v) + 7) \div 8)

\* C14 as stated: for every unsigned value v written through any unsigned
\* write path (write_u8, write_u16, write_u32, write_u64 and Builder::write on
\* u8 / u16 / u32 / u64 / usize), the bytes appended as the value's body are
\* the little-endian representation of v truncated to the minimal number of
\* whole bytes, which is zero bytes for v = 0.
C14_CanonicalUnsignedAsStated ==
    (nOp = "write" /\ TypeOf(nOut.path) \in {"u8", "u16", "u32", "u64", "usize"}) =>
        nOut.body = MinimalLE(nIn)

\* C15 as stated: Builder::write on a value of any signed integer type (i8,
\* i16, i32, i64, isize) routes to the zig-zag signed write, so that read_i64
\* on the written body returns the original value, negative values included;
\* each unsigned type routes to the unsigned write and each float type to the
\* float write of its width.
C15_StaticDispatchAsStated ==
    (nOp = "write" /\ nOut.path.method = "write") =>
        /\ nOut.path.type \in {"i8", "i16", "i32", "i64", "isize"} =>
              /\ nOut.body = write_i64(EmptyBuf, Builder_new, nIn).buffer
              /\ IsOk(nOut.int) /\ nOut.int.val = nIn
        /\ nOut.path.type \in {"u16", "u32", "u64", "usize"} =>
              nOut.body = write_u64(EmptyBuf, Builder_new, nIn).buffer
        /\ nOut.path.type = "u8" =>
              nOut.body = write_u8(EmptyBuf, Builder_new, ByteAt(nIn, 0)).buffer
        /\ nOut.path.type = "f32" => nOut.body = Take(to_le_bytes(nIn), 4)
        /\ nOut.path.type = "f64" => nOut.body = to_le_bytes(nIn)

----------------------------------------------------------------------------
(* Claims about ending a vector (checked under SpecBuilder).                *)

\* C16: when a vector sub-builder is ended (or dropped) after k child values
\* were written through it, the bytes from its recorded start offset are empty
\* if k = 0 and otherwise varint(k) followed by the k framed children; end()
\* returns k, the number of cursors obtained from it that wrote a value.
C16_VectorCountPrefix ==
    (ended # <<>> /\ ended[1].kind = "vector") =>
        LET k == Len(ended[1].kids)
        IN  /\ ended[1].ret = k
            /\ k = 0 => ended[1].tail = <<>>
            /\ k > 0 => ended[1].tail = VarInt_as_bytes(VarInt_from_u64(U64OfNat(k)))
                                           \o Framed(ended[1].kids)

\* a vector of two children was ended, the first of them an empty vector
\* (which contributes no body bytes, only its node header 0x80)
C16_Witness ==
    /\ ended # <<>>
    /\ ended[1].kind = "vector"
    /\ Len(ended[1].kids) = 2
    /\ ended[1].kids[1] = <<>>
    /\ ended[1].tail[1] = 2
    /\ ended[1].tail[2] = 128

----------------------------------------------------------------------------
(* Claims about the struct visitors (checked under SpecCodec).              *)

\* the first thing wrong with the pairs of an object from pair i on, read
\* against a struct's fields: a key that is no field name, a key seen before,
\* a value its field's type rejects, or, at the closing brace, fields without
\* a pair
RECURSIVE FirstOffence(_, _, _)
FirstOffence(fields, pairs, i) ==
    IF i > Len(pairs)
    THEN IF \A k \in 1..Len(fields) : \E j \in 1..Len(pairs) : pairs[j].key = fields[k].name
         THEN [c |-> "none"]
         ELSE [c |-> "missing"]
    ELSE IF \A k \in 1..Len(fields) : fields[k].name # pairs[i].key
         THEN [c |-> "unknown", key |-> pairs[i].key]
    ELSE IF \E j \in 1..(i - 1) : pairs[j].key = pairs[i].key
         THEN [c |-> "duplicate", key |-> pairs[i].key]
    ELSE Strict1(LAMBDA r : IF IsOk(r) THEN FirstOffence(fields, pairs, i + 1)
                                       ELSE [c |-> "value", err |-> r],
                 fast_deserialize(
                     fields[CHOOSE k \in 1..Len(fields) : fields[k].name = pairs[i].key].ty,
                     pairs[i].value))

\* the result r of fast::deserialize of an object against a struct is the one
\* its first offence asks for
FastStructOutcome(fields, pairs, r) ==
    /\ Strict1(LAMBDA o :
                   CASE o.c = "unknown"   -> r = json_error(<<"unknown field", o.key>>)
                     [] o.c = "duplicate" -> r = json_error(<<"duplicate field", o.key>>)
                     [] o.c = "value"     -> r = o.err
                     [] o.c = "missing"   ->
                            /\ IsErr(r)
                            /\ r.val.msg[1] = "missing field"
                            /\ \E k \in 1..Len(fields) :
                                  /\ r.val.msg[2] = fields[k].name
                                  /\ \A j \in 1..Len(pairs) : pairs[j].key # fields[k].name
                     [] o.c = "none"      -> IsOk(r),
               FirstOffence(fields, pairs, 1))
    /\ IsOk(r) => /\ Len(pairs) = Len(fields)
                  /\ \A k \in 1..Len(fields) :
                        Cardinality({j \in 1..Len(pairs) : pairs[j].key = fields[k].name}) = 1
    /\ \A st \in {StructVisitor_entries(fields, pairs, 1,
                                        [k \in 1..Len(fields) |-> None], <<>>)} :
          IsOk(st) =>
              /\ Cardinality({k \in 1..Len(fields) : IsSome(st.val.slots[k])}) = Len(pairs)
              /\ \A k, m \in 1..Len(fields) :
                    (k # m /\ IsSome(st.val.slots[k]) /\ IsSome(st.val.slots[m])) =>
                        \/ st.val.slots[k][1][2] <= st.val.slots[m][1][1]
                        \/ st.val.slots[m][1][2] <= st.val.slots[k][1][1]

\* C17: fast.deserialize of a Struct fails with `unknown field` when a key is
\* not a schema field name, with `duplicate field` when a key occurs a second
\* time, and with `missing field` when the object closes with a schema field
\* not supplied (the first of these that the text runs into, unless a value
\* was rejected before it); it succeeds only when every schema field was
\* supplied exactly once, and each field's staged range is recorded once.
C17_FastStructErrors ==
    /\ (ty.t = "Struct" /\ text.j = "object" /\ fastBuf # None) =>
           FastStructOutcome(ty.fields, text.pairs, fastBuf[1])
    /\ (ty.t = "Struct" /\ text.j = "object" /\ text2 # None /\ fastBuf2 # None) =>
           FastStructOutcome(ty.fields, text2[1].pairs, fastBuf2[1])

\* an object with `age` twice was rejected as a duplicate, and so was the
\* same object with its keys in another order
C17_Witness ==
    /\ ty = Schemas.Person
    /\ text.j = "object"
    /\ Len(text.pairs) = 5
    /\ fastBuf = Some(json_error(<<"duplicate field", "age">>))
    /\ text2 # None /\ text2[1] # text
    /\ fastBuf2 = Some(json_error(<<"duplicate field", "age">>))

----------------------------------------------------------------------------
(* Claims about slow struct deserialization (checked under SpecCodec).      *)

\* going through the fields in schema order from field i on, the first field
\* the object lacks or whose value its type rejects
RECURSIVE FirstFieldFailure(_, _, _)
FirstFieldFailure(fields, object, i) ==
    IF i > Len(fields) THEN [c |-> "none"]
    ELSE IF fields[i].name \notin DOMAIN object
         THEN [c |-> "missing", name |-> fields[i].name]
    ELSE Strict1(LAMBDA r : IF IsOk(r) THEN FirstFieldFailure(fields, object, i + 1)
                                       ELSE [c |-> "value", err |-> r],
                 slow_deserialize(fields[i].ty, object[fields[i].name]))

\* no object of the text has a key twice
RECURSIVE DistinctKeys(_)
DistinctKeys(tok) ==
    CASE tok.j = "array"  -> \A i \in 1..Len(tok.items) : DistinctKeys(tok.items[i])
      [] tok.j = "object" ->
            /\ \A i, j \in 1..Len(tok.pairs) :
                  i # j => tok.pairs[i].key # tok.pairs[j].key
            /\ \A i \in 1..Len(tok.pairs) : DistinctKeys(tok.pairs[i].value)
      [] OTHER -> TRUE

\* C18: slow struct deserialization writes the fields in schema order
\* regardless of the order of keys in the JSON object, and fails with
\* MissingField { name } naming the first field in schema order that the
\* object lacks (when the fields before it were accepted).
C18_SlowStructSchemaOrder ==
    (ty.t = "Struct" /\ Doc.k = "object" /\ slowBuf # None) =>
        /\ Strict1(LAMBDA o :
                       CASE o.c = "missing" ->
                                slowBuf[1] = R("err", [e |-> "MissingField", name |-> o.name])
                         [] o.c = "value"   -> slowBuf[1] = o.err
                         [] o.c = "none"    ->
                                /\ IsOk(slowBuf[1])
                                /\ slowBuf[1].val =
                                       Framed([k \in 1..Len(ty.fields) |->
                                                  slow_deserialize(
                                                      ty.fields[k].ty,
                                                      Doc.map[ty.fields[k].name]).val]),
                   FirstFieldFailure(ty.fields, Doc.map, 1))
        /\ (\E k \in 1..Len(ty.fields) : ty.fields[k].name \notin DOMAIN Doc.map) =>
               IsErr(slowBuf[1])
        /\ DistinctKeys(text) =>
               \A p \in KeyPermutations(text) :
                   slow_deserialize(ty, from_str(p).val) = slowBuf[1]

\* a Person whose keys come as age, hobbies, name, rustacean was written with
\* name first, then age
C18_Witness ==
    /\ ty = Schemas.Person
    /\ text.j = "object"
    /\ Len(text.pairs) = 4
    /\ text.pairs[1].key = "age" /\ text.pairs[3].key = "name"
    /\ text.pairs[1].value.j = "int"
    /\ slowBuf # None
    /\ IsOk(slowBuf[1])
    /\ SubSeq(slowBuf[1].val, 1, 4) = <<130, 65, 108, 27>>

----------------------------------------------------------------------------
(* Claims about the integer readers (checked under SpecNum).                *)

\* the narrower type a reader converts to ("u64" / "i64" for the wide ones)
NarrowTypeOf(reader) ==
    CASE reader = "read_u8"  -> "u8"
      [] reader = "read_u16" -> "u16"
      [] reader = "read_u32" -> "u32"
      [] reader = "read_i8"  -> "i8"
      [] reader = "read_i16" -> "i16"
      [] reader = "read_i32" -> "i32"
      [] reader = "read_int" -> "i64"
      [] OTHER -> "u64"

\* the word is the body's bytes, least significant first, then zero bytes
IsZeroPaddedLE(v, body) ==
    \A j \in 1..8 : ByteAt(v, 8 * (j - 1)) = IF j <= Len(body) THEN body[j] ELSE 0

\* C19: read_uint fails with UnexpectedLength iff the body is longer than 8
\* bytes and otherwise returns the zero-padded little-endian value;
\* read_u8/u16/u32 and read_i8/i16/i32 fail with NumberTooLarge exactly when
\* the decoded value does not fit the narrower type; read_bool returns false
\* for 0, true for 1 and NumberTooLarge for every value >= 2.
C19_ReaderIntegerErrors ==
    nOp = "read" =>
        /\ Len(nOut.body) > 8 <=> nOut.res = R("err", "UnexpectedLength")
        /\ (nOut.reader = "read_uint" /\ Len(nOut.body) <= 8) =>
               /\ IsOk(nOut.res)
               /\ IsZeroPaddedLE(nOut.res.val, nOut.body)
        /\ (nOut.reader \in {"read_u8", "read_u16", "read_u32"} /\ Len(nOut.body) <= 8) =>
               \A v \in {read_uint(nOut.body).val} :
                   /\ IsZeroPaddedLE(v, nOut.body)
                   /\ nOut.res = IF InType(NarrowTypeOf(nOut.reader), v)
                                 THEN R("ok", v) ELSE R("err", "NumberTooLarge")
        /\ (nOut.reader \in {"read_i8", "read_i16", "read_i32"} /\ Len(nOut.body) <= 8) =>
               \A v \in {read_int(nOut.body).val} :
                   nOut.res = IF InType(NarrowTypeOf(nOut.reader), v)
                              THEN R("ok", v) ELSE R("err", "NumberTooLarge")
        /\ (nOut.reader = "read_bool" /\ Len(nOut.body) <= 8) =>
               \A v \in {read_uint(nOut.body).val} :
                   nOut.res = IF v = Zero64 THEN R("ok", FALSE)
                              ELSE IF v = Word2(0) THEN R("ok", TRUE)
                              ELSE R("err", "NumberTooLarge")

\* read_i8 on the body of -129 (zigzag 257) was refused as too large
C19_Witness ==
    /\ nOp = "read"
    /\ nOut.reader = "read_i8"
    /\ nOut.body = <<1, 1>>
    /\ read_int(nOut.body).val = Not64(Word2(7))
    /\ nOut.res = R("err", "NumberTooLarge")

----------------------------------------------------------------------------
(* Claims about varint decoding of garbage (checked under SpecGarbage).     *)

\* the number of bytes with the high bit set at the start of the slice
LeadingHighBytes(buf) ==
    CHOOSE n \in 0..Len(buf) : /\ \A i \in 1..n : buf[i] >= 128
                               /\ n < Len(buf) => buf[n + 1] < 128

\* what the claim asks of a decoder's result r on the slice buf: TooLarge
\* (BadVarint) for a varint running past ten bytes, UnexpectedEOF for a slice
\* that ends inside the varint, and no panic
VarintOutcome(buf, r) ==
    /\ ~IsPanic(r)
    /\ (LeadingHighBytes(buf) >= 10 /\ Len(buf) > 10) => r = R("err", "TooLarge")
    /\ (LeadingHighBytes(buf) = Len(buf) /\ Len(buf) <= 10) => r = R("err", "UnexpectedEOF")

\* the decoders of varint.rs on the garbage bytes do as C20 says
VarintRsOutcome ==
    flat # <<>> => /\ VarintOutcome(flat, VarInt_from_slice(flat))
                   /\ VarintOutcome(flat, read_varint(flat))

\* C20 as stated: every varint decoder in the codebase (VarInt::from_slice /
\* read_varint in varint.rs, and the element-count decoder used by read_array)
\* fails with a BadVarint (TooLarge) error when the chain of high-bit-set
\* bytes exceeds 10 bytes and with UnexpectedEOF when the slice ends before a
\* byte with the high bit clear; neither case panics or overflows.
C20_VarintDecodeErrorsAsStated ==
    (slowOut # None /\ ty.t = "Array" /\ flat # <<>>) =>
        /\ VarintOutcome(flat, VarInt_from_slice(flat))
        /\ VarintOutcome(flat, read_varint(flat))
        /\ VarintOutcome(flat, read_array(flat))
        /\ (LeadingHighBytes(flat) >= 10 \/ LeadingHighBytes(flat) = Len(flat)) =>
               VarintOutcome(flat, slowOut[1])

----------------------------------------------------------------------------
(* Claims about the choice of node header (checked under SpecNum).          *)

\* the header is the form of N bytes with N leading ones in its first byte
IsUnaryForm(header, N) ==
    /\ Len(header) = N
    /\ leading_ones(header[1]) = N

\* the header is a raw form: seven or eight leading ones and then that many
\* bytes of length
IsRawForm(header) ==
    \/ Len(header) = 8 /\ header[1] = 254
    \/ Len(header) = 9 /\ header[1] = 255

\* the rules for L = 0 and L = 1, which the code follows as stated
SmallBodyRules ==
    /\ nIn = Zero64 => nOut.header = <<128>>
    /\ (nIn = Word2(0) /\ nByte < 128) => nOut.header = <<>>
    /\ (nIn = Word2(0) /\ nByte >= 128) => nOut.header = <<129>>

\* C21 as stated: L = 0 emits the single byte 0x80; L = 1 with body byte
\* < 0x80 emits no header; L = 1 with body byte >= 0x80 emits 0x81; otherwise
\* the header is the smallest N in 2..=6 bytes such that L fits in 8N - (N+1)
\* bits, and if none fits the 7- or 8-byte raw form is used.
C21_EncoderChoiceAsStated ==
    nOp = "header" =>
        /\ SmallBodyRules
        /\ BitsOf(nIn) >= 2 =>
               IF \E N \in 2..6 : BitsOf(nIn) <= 8 * N - (N + 1)
               THEN \E N \in 2..6 :
                       /\ BitsOf(nIn) <= 8 * N - (N + 1)
                       /\ \A M \in 2..(N - 1) : BitsOf(nIn) > 8 * M - (M + 1)
                       /\ IsUnaryForm(nOut.header, N)
               ELSE IsRawForm(nOut.header)

\* C21 (amended): as stated for L = 0 and L = 1; otherwise the header is the
\* smallest N in 1..=6 bytes such that L fits in 8N - (N+1) bits (one byte,
\* 0x80 | L, for 2 <= L <= 63), and if none fits a raw form is used.
C21_EncoderChoice ==
    nOp = "header" =>
        /\ SmallBodyRules
        /\ BitsOf(nIn) >= 2 =>
               IF \E N \in 1..6 : BitsOf(nIn) <= 8 * N - (N + 1)
               THEN \E N \in 1..6 :
                       /\ BitsOf(nIn) <= 8 * N - (N + 1)
                       /\ \A M \in 1..(N - 1) : BitsOf(nIn) > 8 * M - (M + 1)
                       /\ IsUnaryForm(nOut.header, N)
               ELSE IsRawForm(nOut.header)
        /\ (BitsOf(nIn) \in 2..6) => nOut.header = <<128 + NatOfU64(nIn)>>

\* a body of 5 bytes got the one-byte header 0x85
C21_Witness ==
    /\ nOp = "header"
    /\ nIn = U64OfNat(5)
    /\ nOut.header = <<133>>

----------------------------------------------------------------------------
(* Claims about scalars read from garbage (checked under SpecGarbage).      *)

\* C22 as stated: for each scalar schema type, serializing a body whose
\* length is not an admissible length for that type returns an error: F64 for
\* any body not exactly 8 bytes, U64 and I64 for any body longer than 8 bytes,
\* Bool for any body that is not the single byte 0 or 1.
C22_ScalarGarbageAsStated ==
    slowOut # None =>
        /\ (ty = Ty.F64 /\ Len(flat) # 8) => IsErr(slowOut[1])
        /\ (ty \in {Ty.U64, Ty.I64} /\ Len(flat) > 8) => IsErr(slowOut[1])
        /\ (ty = Ty.Bool /\ flat \notin {<<0>>, <<1>>}) => IsErr(slowOut[1])

\* the part of C22 the code keeps: the length checks of F64, U64 and I64, and
\* Bool for a body longer than 8 bytes or with a value of 2 or more
ScalarGarbageLengths ==
    slowOut # None =>
        /\ ty = Ty.F64 => (IsErr(slowOut[1]) <=> Len(flat) # 8)
        /\ ty \in {Ty.U64, Ty.I64} => (IsErr(slowOut[1]) <=> Len(flat) > 8)
        /\ ty = Ty.Bool =>
              (IsOk(slowOut[1]) <=>
                  /\ Len(flat) <= 8
                  /\ \A j \in 2..Len(flat) : flat[j] = 0
                  /\ Len(flat) >= 1 => flat[1] <= 1)

----------------------------------------------------------------------------
(* Claims about the buffer after deserialize_into (checked under SpecInto). *)

\* after a successful call the buffer holds the bytes the call returned
BufferOfOk ==
    /\ (slowBuf # None /\ IsOk(slowBuf[1])) => slowBuf[1].buffer = slowBuf[1].val
    /\ (fastBuf # None /\ IsOk(fastBuf[1])) => fastBuf[1].buffer = fastBuf[1].val

\* C26 as stated: whenever slow.deserialize_into or fast.deserialize_into
\* returns an error (type mismatch, NotAByte, missing/unknown/duplicate field,
\* at any nesting depth), the contents of the caller's FlatbinBuf are the same
\* as before the call.
C26_ErrorLeavesBufferAsStated ==
    /\ (slowBuf # None /\ IsErr(slowBuf[1])) => slowBuf[1].buffer = flat
    /\ (fastBuf # None /\ IsErr(fastBuf[1])) => fastBuf[1].buffer = flat

\* C26 (amended): whenever slow.deserialize_into or fast.deserialize_into
\* returns an error, the bytes the buffer held before the call are still at
\* its start; the buffer is the same as before the call when the schema is a
\* scalar type, while an error inside an array or a struct can leave what was
\* written up to it after them.
C26_ErrorKeepsPriorContents ==
    /\ (slowBuf # None /\ IsErr(slowBuf[1])) =>
          /\ Len(slowBuf[1].buffer) >= Len(flat)
          /\ Take(slowBuf[1].buffer, Len(flat)) = flat
          /\ ty.t \notin {"Array", "Struct"} => slowBuf[1].buffer = flat
    /\ (fastBuf # None /\ IsErr(fastBuf[1])) =>
          /\ Len(fastBuf[1].buffer) >= Len(flat)
          /\ Take(fastBuf[1].buffer, Len(flat)) = flat
          /\ ty.t \notin {"Array", "Struct"} => fastBuf[1].buffer = flat

\* both calls failed at the second element of an array, on a buffer that held
\* two bytes, and left the count and the first element after them
C26_Witness ==
    /\ ty = array_def(Ty.U64)
    /\ flat = <<200, 1>>
    /\ slowBuf # None /\ IsErr(slowBuf[1])
    /\ fastBuf # None /\ IsErr(fastBuf[1])
    /\ slowBuf[1].buffer = <<200, 1, 1, 1>>
    /\ fastBuf[1].buffer = <<200, 1, 1, 1>>

----------------------------------------------------------------------------
(* Claims about integers in the fast deserializer (checked under SpecInto). *)

\* the text is an integer literal: no fraction, no exponent
IsIntegerToken == text.j = "int"

\* the i64 of a negative literal, -mag
NegatedMag == Add64(Not64(text.mag), Word2(0))

\* the caller's buffer as a builder state
CallerBuf == [buffer |-> flat, frames |-> <<>>]

OutOfRangeNothingWritten ==
    /\ fastBuf[1].tag = "err"
    /\ fastBuf[1].val = json_error(OUT_OF_RANGE).val
    /\ fastBuf[1].buffer = flat

InvalidTypeNothingWritten ==
    /\ fastBuf[1].tag = "err"
    /\ fastBuf[1].val.msg[1] = "invalid type"
    /\ fastBuf[1].buffer = flat

WrittenAs(b) ==
    /\ fastBuf[1].tag = "ok"
    /\ fastBuf[1].val = b.buffer
    /\ fastBuf[1].buffer = b.buffer

----------------------------------------------------------------------------
(* binary.rs: the counted FlatbinBuilder.  A builder is [buffer, seqs]; a    *)
(* Seq is [remain, offset] and, as history, the count it was started with.  *)
(* A call gives Ok(the builder after it) or the panic it ends in, with the  *)
(* builder as the panic left it.                                            *)

\* starts and writes made on one FlatbinBuilder
MaxCalls == 4

\* the largest count a sequence is started with
MaxCount == 2

Panicked(msg, fb) == [tag |-> "panic", val |-> msg, fb |-> fb]

\* write_varint: the bytes appended
write_varint(value) == VarInt_as_bytes(VarInt_from_u64(value))

\* a make_header that lets a full sequence take one more child
FlatbinBuilder_make_header_unchecked(fb, len) ==
    IF fb.seqs = <<>> THEN R("ok", [header |-> None, fb |-> fb])
    ELSE Strict1(LAMBDA remain :
                     R("ok", [header |-> IF remain <= 1 THEN None
                                         ELSE Some(VarInt_from_usize(U64OfNat(len))),
                              fb     |-> [fb EXCEPT !.seqs[Len(fb.seqs)].remain =
                                                        IF remain = 0 THEN 0 ELSE remain - 1]]),
                 fb.seqs[Len(fb.seqs)].remain)

\* FlatbinBuilder::make_header: Ok([header, fb]) with the Option<VarInt> and
\* the builder with the innermost Seq's remain decremented
FlatbinBuilder_make_header(fb, len) ==
    IF fb.seqs = <<>> THEN R("ok", [header |-> None, fb |-> fb])
    ELSE Strict1(LAMBDA remain :
                     IF remain = 0 THEN Panicked("too many elements in sequence", fb)
                     ELSE R("ok", [header |-> IF remain = 1 THEN None
                                              ELSE Some(VarInt_from_usize(U64OfNat(len))),
                                   fb     |-> [fb EXCEPT !.seqs[Len(fb.seqs)].remain =
                                                             remain - 1]]),
                 fb.seqs[Len(fb.seqs)].remain)

\* the bytes of an Option<VarInt>
HeaderBytes(header) == IF IsSome(header) THEN VarInt_as_bytes(header[1]) ELSE <<>>

\* FlatbinBuilder::write
FlatbinBuilder_write(fb, data) ==
    AndThen(LAMBDA h : R("ok", [buffer |-> h.fb.buffer \o HeaderBytes(h.header) \o data,
                                seqs   |-> h.fb.seqs]),
            FlatbinBuilder_make_header(fb, Len(data)))

\* FlatbinBuilder::write_bytes
FlatbinBuilder_write_bytes(fb, bytes) == FlatbinBuilder_write(fb, bytes)

\* FlatbinBuilder::start_tuple
FlatbinBuilder_start_tuple(fb, count) ==
    [buffer |-> fb.buffer,
     seqs   |-> Append(fb.seqs, [offset |-> Len(fb.buffer), remain |-> count,
                                 declared |-> count])]

\* FlatbinBuilder::start_array
FlatbinBuilder_start_array(fb, count) ==
    [buffer |-> fb.buffer \o write_varint(U64OfNat(count)),
     seqs   |-> Append(fb.seqs, [offset |-> Len(fb.buffer), remain |-> count,
                                 declared |-> count])]

\* FlatbinBuilder::end_seq
FlatbinBuilder_end_seq(fb) ==
    IF fb.seqs = <<>> THEN Panicked("not in a sequence", fb)
    ELSE Strict2(LAMBDA seq, popped :
                     IF seq.remain # 0
                     THEN Panicked("too few elements in sequence", popped)
                     ELSE AndThen(LAMBDA h :
                                      R("ok", [buffer |-> Splice(h.fb.buffer, seq.offset,
                                                                 HeaderBytes(h.header)),
                                               seqs   |-> h.fb.seqs]),
                                  FlatbinBuilder_make_header(
                                      popped, Len(fb.buffer) - seq.offset)),
                 fb.seqs[Len(fb.seqs)],
                 [buffer |-> fb.buffer, seqs |-> Take(fb.seqs, Len(fb.seqs) - 1)])

----------------------------------------------------------------------------
(* The counted builder as a state machine: FlatbinBuilder::new(), then      *)
(* start_tuple / start_array, write_bytes and end_seq calls in any order,   *)
(* until one of them panics.  `call` records the last call and the builder  *)
(* it was made on.                                                          *)

FB == [buffer |-> buffer, seqs |-> seqs]

\* the bodies written
CountedBodies == {<<>>, <<7>>, <<200, 1>>}

CountedInit ==
    /\ buffer = <<>>
    /\ seqs = <<>>
    /\ fatal = None
    /\ call = [op |-> "new", before |-> [buffer |-> <<>>, seqs |-> <<>>]]
    /\ nwrites = 0
    /\ frames = <<>> /\ root = Idle /\ kids = <<>>
    /\ rootKind = Idle /\ rootKids = <<>> /\ ended = <<>>
    /\ numIdle
    /\ codecIdle

\* the builder and the panic flag after a call that gave r
Outcome(r) ==
    IF IsPanic(r)
    THEN /\ fatal' = Some(r.val)
         /\ buffer' = r.fb.buffer
         /\ seqs' = r.fb.seqs
    ELSE /\ fatal' = None
         /\ buffer' = r.val.buffer
         /\ seqs' = r.val.seqs

\* builder.start_tuple(count) / builder.start_array(count)
CountedStart(kind, count) ==
    /\ fatal = None
    /\ nwrites < MaxCalls
    /\ Len(seqs) < MaxDepth
    /\ Outcome(R("ok", IF kind = "tuple" THEN FlatbinBuilder_start_tuple(FB, count)
                                          ELSE FlatbinBuilder_start_array(FB, count)))
    /\ call' = [op |-> "start", kind |-> kind, count |-> count, before |-> FB]
    /\ nwrites' = nwrites + 1
    /\ UNCHANGED <<frames, root, kids, rootKind, rootKids, ended, numVars, codecVars>>

\* builder.write_bytes(data)
CountedWrite(data) ==
    /\ fatal = None
    /\ nwrites < MaxCalls
    /\ Outcome(FlatbinBuilder_write_bytes(FB, data))
    /\ call' = [op |-> "write", data |-> data, before |-> FB]
    /\ nwrites' = nwrites + 1
    /\ UNCHANGED <<frames, root, kids, rootKind, rootKids, ended, numVars, codecVars>>

\* builder.end_seq()
CountedEndSeq ==
    /\ fatal = None
    /\ Outcome(FlatbinBuilder_end_seq(FB))
    /\ call' = [op |-> "end_seq", before |-> FB]
    /\ UNCHANGED <<nwrites, frames, root, kids, rootKind, rootKids, ended, numVars,
                   codecVars>>

CountedNext ==
    \/ \E kind \in {"tuple", "array"}, count \in 0..MaxCount : CountedStart(kind, count)
    \/ \E data \in CountedBodies : CountedWrite(data)
    \/ CountedEndSeq

SpecCounted == CountedInit /\ [][CountedNext]_vars

----------------------------------------------------------------------------
(* Claims about the counted builder (checked under SpecCounted).            *)

\* the sequences open before the last call, and the innermost of them
Before == call.before.seqs

Innermost == Before[Len(Before)]

\* the sequence that encloses the innermost one has room for k more children
ParentRemains(k) == Len(Before) >= 2 /\ Before[Len(Before) - 1].remain = k

\* C24: writing a child into a sequence that already holds its declared n
\* children, calling end_seq while the innermost open sequence has fewer than
\* n children, or calling end_seq with no open sequence is fatal; a nested
\* sequence counts as one child of its parent only when its end_seq runs (so
\* that ending it inside a full parent is the fatal write of one child too
\* many), and with exactly n children end_seq succeeds and frames the nested
\* sequence with a length header unless it is its parent's last child.
C24_CountedBuilderContract ==
    /\ (call.op = "write" /\ Before # <<>>) =>
          /\ fatal # None <=> Innermost.declared - Innermost.remain = Innermost.declared
          /\ fatal # None => fatal = Some("too many elements in sequence")
          /\ fatal = None => seqs[Len(seqs)].remain = Innermost.remain - 1
    /\ (call.op = "start" /\ Before # <<>>) =>
          /\ fatal = None
          /\ seqs[Len(Before)] = Innermost
    /\ (call.op = "end_seq" /\ Before = <<>>) => fatal = Some("not in a sequence")
    /\ (call.op = "end_seq" /\ Before # <<>>) =>
          /\ Innermost.remain > 0 => fatal = Some("too few elements in sequence")
          /\ (Innermost.remain = 0 /\ ParentRemains(0)) =>
                fatal = Some("too many elements in sequence")
          /\ (Innermost.remain = 0 /\ ~ParentRemains(0)) =>
                /\ fatal = None
                /\ Len(seqs) = Len(Before) - 1
                /\ Len(Before) >= 2 =>
                      seqs[Len(seqs)].remain = Before[Len(Before) - 1].remain - 1
                /\ buffer =
                      Splice(call.before.buffer, Innermost.offset,
                             IF Len(Before) >= 2 /\ ~ParentRemains(1)
                             THEN write_varint(U64OfNat(Len(call.before.buffer)
                                                        - Innermost.offset))
                             ELSE <<>>)

\* a tuple of one child was ended as the first of its parent's two children
\* and got the length header 2 before its two bytes
C24_Witness ==
    /\ call.op = "end_seq"
    /\ fatal = None
    /\ Len(Before) = 2
    /\ Before[1].declared = 2 /\ Before[1].remain = 2
    /\ Innermost.declared = 1
    /\ buffer = <<2, 200, 1>>

----------------------------------------------------------------------------
(* Claims about the two serializers on arbitrary bytes (checked under       *)
(* SpecGarbage).                                                            *)

\* the names of the entries fast::serialize hands to serialize_entry for a
\* struct, in the order of the calls
EmittedNames(fields, data) ==
    Strict1(LAMBDA es : IF IsOk(es) THEN [i \in 1..Len(es.val) |-> es.val[i].key] ELSE <<>>,
            TypedValue_serialize_fields(fields, 1, read_tuple(data, Len(fields)).val))

\* a value both serializers returned has the shape of the schema at the top:
\* a struct one entry per field, emitted in schema order, an array as many
\* elements as the count decoded from the bytes
ShapeOfSchema(v) ==
    CASE ty.t = "Struct" ->
            /\ EmittedNames(ty.fields, flat) = [i \in 1..Len(ty.fields) |-> ty.fields[i].name]
            /\ DOMAIN v.map = {ty.fields[i].name : i \in 1..Len(ty.fields)}
      [] ty.t = "Array"  -> Len(v.items) = read_array(flat).val.count
      [] OTHER           -> TRUE

\* C25 as stated: for every schema and every byte string, fast.serialize into
\* a JSON value sink and slow.serialize either both fail (fast with `corrupt
\* document`) or both succeed with equal JSON values, structs being emitted
\* with one entry per schema field in schema order and arrays with exactly
\* the decoded element count.
C25_SerializerEquivalenceAsStated ==
    (slowOut # None /\ fastOut # None) =>
        \/ /\ IsErr(slowOut[1])
           /\ fastOut[1] = json_error("corrupt document")
        \/ /\ IsOk(slowOut[1])
           /\ IsOk(fastOut[1])
           /\ fastOut[1].val = slowOut[1].val
           /\ ShapeOfSchema(fastOut[1].val)

\* where neither serializer aborts, the two agree as C25 says
SerializersAgreeUnlessAborted ==
    (slowOut # None /\ fastOut # None /\ ~IsPanic(slowOut[1]) /\ ~IsPanic(fastOut[1])) =>
        C25_SerializerEquivalenceAsStated

\* the two serializers abort on the same inputs
SerializersAbortTogether ==
    (slowOut # None /\ fastOut # None) => (IsPanic(slowOut[1]) <=> IsPanic(fastOut[1]))

----------------------------------------------------------------------------
(* Claims about writing a scalar and reading it back (checked under         *)
(* SpecNum).                                                                *)

\* the values of u8 that read_u8 returns from the bytes write_u8 wrote
U8RoundTrips ==
    {n \in 0..255 :
        read_u8(write_u8(EmptyBuf, Builder_new, n).buffer) = R("ok", U64OfNat(n))}

\* C27 as stated: for every scalar kind with a matching pair of builder write
\* and reader read (bool, u8, u16, u32, u64, i64, f32, f64, bytes, str, void)
\* and every value v of that kind, reading the body produced by a top-level
\* write of v with the matching read_* returns v; this holds for all 256
\* values of u8.
C27_ScalarRoundTripAsStated ==
    nOp = "roundtrip" =>
        /\ nOut.back = R("ok", nOut.value)
        /\ nOut.kind = "u8" => U8RoundTrips = 0..255

\* every kind but u8 reads back what was written, and u8 does for 0..127 and
\* for no value above
RoundTripExceptWideU8 ==
    /\ (nOp = "roundtrip" /\ nOut.kind # "u8") => nOut.back = R("ok", nOut.value)
    /\ U8RoundTrips = 0..127
    /\ \A n \in 128..255 :
           read_u8(write_u8(EmptyBuf, Builder_new, n).buffer) = R("err", "NumberTooLarge")

====
